---------------------------- MODULE Spec2Model ----------------------------
(***************************************************************************)
(* Model of the QA dashboard backend: the ComprehensiveQADashboard         *)
(* aggregator (src/qa_dashboard_generator.py) and the Flask service that   *)
(* wraps it (src/app.py).                                                  *)
(*                                                                         *)
(* A spreadsheet cell is a record [k, n, s]: k is "nan" (missing), "num"   *)
(* (number n), "str" (text s) or "date" (timestamp s).  A DataFrame is a   *)
(* record [columns, rows]: the column labels in order, and the rows in     *)
(* order, each row a function from the column labels to cells.  An ordered *)
(* Python dict is a sequence of records with a `key` field.  A value       *)
(* rounded to two decimals is kept as an integer number of hundredths.     *)
(***************************************************************************)
EXTENDS Integers, Sequences, FiniteSets, TLC

VARIABLES
    excel,        \* the workbook stored at excel_path: [ok, sheets]
    pc,           \* lifecycle of the instance: "new", "ready", "error"
    weeks_list,   \* self.weeks_list
    all_data,     \* self.all_data
    result,       \* value returned by the last aggregation call
    summaries,    \* values returned by generate_all_statistics, in call order
    xlsx_file,    \* service: content of reporte_tarjetas.xlsx, or Absent
    html_file,    \* service: content of qa-dashboard.html, or Absent
    response,     \* service: outcome of the last handler
    booted,       \* service: before_first_request hook has run
    req_count,    \* service: number of requests handled
    in_flight     \* service: the /generate requests being handled at once

vars == <<excel, pc, weeks_list, all_data, result, summaries,
          xlsx_file, html_file, response, booted, req_count, in_flight>>

coreVars == <<excel, pc, weeks_list, all_data, result, summaries>>
appVars == <<xlsx_file, html_file, response, booted, req_count, in_flight>>

---------------------------------------------------------------------------
(* Bounds of the model *)

MaxRows == 2        \* rows of a workbook, over all its week sheets
MaxSheets == 2      \* week sheets of a workbook
MaxCalls == 2       \* recorded generate_all_statistics calls
MaxRequests == 2    \* HTTP requests handled by the service
MaxReviewed == 32   \* cards behind one rejection percentage
MaxLoads == 2       \* calls of load_all_sheets after the constructor's
MaxInFlight == 2    \* /generate requests handled at the same time

---------------------------------------------------------------------------
(* Sequences *)

Range(s) == {s[i] : i \in DOMAIN s}

Contains(s, x) == \E i \in DOMAIN s : s[i] = x

RECURSIVE SumSeq(_)
SumSeq(s) == IF s = <<>> THEN 0 ELSE s[1] + SumSeq(Tail(s))

RECURSIVE Concat(_)
Concat(ss) == IF ss = <<>> THEN <<>> ELSE ss[1] \o Concat(Tail(ss))

FirstIndex(s, x) == CHOOSE i \in DOMAIN s : s[i] = x /\ \A j \in 1..(i-1) : s[j] # x

---------------------------------------------------------------------------
(* Cells *)

NaN == [k |-> "nan", n |-> 0, s |-> ""]
Str(x) == [k |-> "str", n |-> 0, s |-> x]
Num(x) == [k |-> "num", n |-> x, s |-> ""]
Date(x) == [k |-> "date", n |-> 0, s |-> x]

isna(c) == c.k = "nan"

fillna(c, v) == IF isna(c) THEN v ELSE c

\* str.lower() on the column labels and sheet names of the model
lower(x) ==
    CASE x = "Tarjetas semana 2" -> "tarjetas semana 2"
      [] x = "TARJETAS SEMANA 1" -> "tarjetas semana 1"
      [] x = "Tarjetas Semana 3" -> "tarjetas semana 3"
      [] x = "Tarjetas semana 4" -> "tarjetas semana 4"
      [] x = "Resumen" -> "resumen"
      [] x = "Semana" -> "semana"
      [] x = "PM" -> "pm"
      [] x = "QA" -> "qa"
      [] x = "Tester" -> "tester"
      [] x = "Web/App" -> "web/app"
      [] x = "Web o App" -> "web o app"
      [] x = "Sitio" -> "sitio"
      [] x = "Plataforma" -> "plataforma"
      [] x = "Prioridad en la Tarjeta" -> "prioridad en la tarjeta"
      [] x = "Prioridad" -> "prioridad"
      [] x = "Descripción" -> "descripción"
      [] x = "Description" -> "description"
      [] x = "Aceptado/Rechazado" -> "aceptado/rechazado"
      [] x = "Número de rechazos" -> "número de rechazos"
      [] x = "Desarrollador" -> "desarrollador"
      [] x = "Developer" -> "developer"
      [] x = "Desarrollador Web" -> "desarrollador web"
      [] x = "Fecha de Aprobación o Rechazo" -> "fecha de aprobación o rechazo"
      [] OTHER -> x

\* 'tarjetas semana' in name.lower()
has_week_marker(name) ==
    lower(name) \in {"tarjetas semana 1", "tarjetas semana 2",
                     "tarjetas semana 3", "tarjetas semana 4"}

\* 'desarrollador' in col.lower() or 'developer' in col.lower()
is_dev_col(col) ==
    lower(col) \in {"desarrollador", "developer", "desarrollador web"}

\* pd.to_numeric(errors='coerce') on one cell
to_numeric(c) ==
    CASE c.k = "num" -> c
      [] c.k = "str" /\ c.s = "3" -> Num(3)
      [] c.k = "str" /\ c.s = "-2" -> Num(0 - 2)
      [] OTHER -> NaN

\* pd.to_datetime(errors='coerce') on one cell
to_datetime(c) ==
    CASE c.k = "date" -> c
      [] c.k = "str" /\ c.s = "2025-06-02" -> Date("2025-06-02")
      [] OTHER -> NaN

---------------------------------------------------------------------------
(* DataFrames *)

EmptyFrame == [columns |-> <<>>, rows |-> <<>>]

has_column(df, c) == Contains(df.columns, c)

\* df[c] = vals (one cell per row): replaces the cells of an existing
\* column in place, appends a new column otherwise
assign(df, c, vals) ==
    [columns |-> IF has_column(df, c) THEN df.columns ELSE Append(df.columns, c),
     rows |-> [i \in DOMAIN df.rows |->
                 [x \in Range(df.columns) \cup {c} |->
                     IF x = c THEN vals[i] ELSE df.rows[i][x]]]]

\* df[c] = v for a scalar v
assign_scalar(df, c, v) == assign(df, c, [i \in DOMAIN df.rows |-> v])

\* df.drop(columns=cs)
drop(df, cs) ==
    [columns |-> SelectSeq(df.columns, LAMBDA x : x \notin cs),
     rows |-> [i \in DOMAIN df.rows |->
                 [x \in Range(df.columns) \ cs |-> df.rows[i][x]]]]

\* df.rename(columns={old: new})
rename(df, old, new) ==
    [columns |-> [i \in DOMAIN df.columns |->
                     IF df.columns[i] = old THEN new ELSE df.columns[i]],
     rows |-> [i \in DOMAIN df.rows |->
                 [x \in (Range(df.columns) \ {old}) \cup {new} |->
                     IF x = new THEN df.rows[i][old] ELSE df.rows[i][x]]]]

\* the labels of s that are not in acc, appended to acc in order
RECURSIVE union_columns(_, _)
union_columns(acc, s) ==
    IF s = <<>> THEN acc
    ELSE union_columns(IF Contains(acc, s[1]) THEN acc ELSE Append(acc, s[1]),
                       Tail(s))

\* the frames stacked last sheet first
concat_last_first(dfs) ==
    LET cols == union_columns(<<>>, Concat([i \in DOMAIN dfs |-> dfs[i].columns]))
        widen(df) == [i \in DOMAIN df.rows |->
                        [x \in Range(cols) |->
                            IF has_column(df, x) THEN df.rows[i][x] ELSE NaN]]
    IN [columns |-> cols,
        rows |-> Concat([i \in DOMAIN dfs |-> widen(dfs[Len(dfs) + 1 - i])])]

\* pd.concat(dfs, ignore_index=True) of a non-empty list: the union of the
\* columns in order of first appearance, the rows in order, NaN where a
\* frame lacks a column
concat(dfs) ==
    LET cols == union_columns(<<>>, Concat([i \in DOMAIN dfs |-> dfs[i].columns]))
        widen(df) == [i \in DOMAIN df.rows |->
                        [x \in Range(cols) |->
                            IF has_column(df, x) THEN df.rows[i][x] ELSE NaN]]
    IN [columns |-> cols,
        rows |-> Concat([i \in DOMAIN dfs |-> widen(dfs[i])])]

\* df[df[c] == v]
where_eq(df, c, v) ==
    [columns |-> df.columns,
     rows |-> SelectSeq(df.rows, LAMBDA r : r[c] = v)]

\* df[c].dropna().unique(): the non-missing values in order of first appearance
RECURSIVE unique_seq(_)
unique_seq(s) ==
    IF s = <<>> THEN <<>>
    ELSE LET r == unique_seq(SubSeq(s, 1, Len(s) - 1))
         IN IF Contains(r, s[Len(s)]) THEN r ELSE Append(r, s[Len(s)])

column(df, c) == [i \in DOMAIN df.rows |-> df.rows[i][c]]

dropna_unique(df, c) ==
    unique_seq(SelectSeq(column(df, c), LAMBDA v : ~isna(v)))

\* len(df[c].unique()) and df[c].nunique() on a column without missing cells
nunique(df, c) == Cardinality(Range(column(df, c)))

len(df) == Len(df.rows)

---------------------------------------------------------------------------
(* clean_data *)

date_columns ==
    <<"Fecha tentativa de validación por parte de QA",
      "Fecha de Aprobación o Rechazo">>

\* lines 50-54: the date columns that exist are parsed, unparseable -> NaT
RECURSIVE clean_dates(_, _)
clean_dates(df, cols) ==
    IF cols = <<>> THEN df
    ELSE LET c == cols[1]
             d == IF has_column(df, c)
                  THEN assign(df, c, [i \in DOMAIN df.rows |->
                                         to_datetime(df.rows[i][c])])
                  ELSE df
         IN clean_dates(d, Tail(cols))

\* the coercion without the default: what is no number stays missing
clean_rechazos_uncoerced(df) ==
    IF has_column(df, "Número de rechazos")
    THEN assign(df, "Número de rechazos",
                [i \in DOMAIN df.rows |->
                    to_numeric(df.rows[i]["Número de rechazos"])])
    ELSE assign_scalar(df, "Número de rechazos", NaN)

\* lines 56-61
clean_rechazos(df) ==
    IF has_column(df, "Número de rechazos")
    THEN assign(df, "Número de rechazos",
                [i \in DOMAIN df.rows |->
                    fillna(to_numeric(df.rows[i]["Número de rechazos"]), Num(0))])
    ELSE assign_scalar(df, "Número de rechazos", Num(0))

\* lines 63-68
clean_decision(df) ==
    IF has_column(df, "Aceptado/Rechazado")
    THEN assign(df, "Aceptado/Rechazado",
                [i \in DOMAIN df.rows |->
                    fillna(df.rows[i]["Aceptado/Rechazado"], Str("PENDIENTE"))])
    ELSE assign_scalar(df, "Aceptado/Rechazado", Str("PENDIENTE"))

\* df[cols].bfill(axis=1).iloc[:, 0] on one row: the first non-missing cell
\* among cols, in order; missing when there is none
RECURSIVE first_valid(_, _)
first_valid(row, cols) ==
    IF cols = <<>> THEN NaN
    ELSE IF ~isna(row[cols[1]]) THEN row[cols[1]]
    ELSE first_valid(row, Tail(cols))

\* the developer column left with its missing cells
clean_desarrollador_unfilled(df) ==
    LET dev_cols == SelectSeq(df.columns, is_dev_col)
    IN IF ~has_column(df, "Desarrollador") /\ dev_cols # <<>>
       THEN drop(assign(df, "Desarrollador",
                        [i \in DOMAIN df.rows |->
                            first_valid(df.rows[i], dev_cols)]),
                 Range(dev_cols))
       ELSE IF ~has_column(df, "Desarrollador") /\ dev_cols = <<>>
       THEN assign_scalar(df, "Desarrollador", NaN)
       ELSE df

\* lines 70-82
clean_desarrollador(df) ==
    LET dev_cols == SelectSeq(df.columns, is_dev_col)
        d == IF ~has_column(df, "Desarrollador") /\ dev_cols # <<>>
             THEN drop(assign(df, "Desarrollador",
                              [i \in DOMAIN df.rows |->
                                  first_valid(df.rows[i], dev_cols)]),
                       Range(dev_cols))
             ELSE IF ~has_column(df, "Desarrollador") /\ dev_cols = <<>>
             THEN assign_scalar(df, "Desarrollador", NaN)
             ELSE df
    IN IF has_column(d, "Desarrollador")
       THEN assign(d, "Desarrollador",
                   [i \in DOMAIN d.rows |->
                       fillna(d.rows[i]["Desarrollador"],
                              Str("Desarrollador Desconocido"))])
       ELSE d

\* lines 85-92
expected_cols_mapping ==
    << [col |-> "PM", variations |-> {"pm", "qa", "tester"}],
       [col |-> "Web/App", variations |-> {"web/app", "web o app"}],
       [col |-> "Sitio", variations |-> {"sitio"}],
       [col |-> "Plataforma", variations |-> {"plataforma"}],
       [col |-> "Prioridad en la Tarjeta",
        variations |-> {"prioridad en la tarjeta", "prioridad"}],
       [col |-> "Descripción", variations |-> {"descripción", "description"}] >>

\* the renaming that takes the last matching column instead of the first
RECURSIVE standardize_columns_last_match(_, _)
standardize_columns_last_match(df, mapping) ==
    IF mapping = <<>> THEN df
    ELSE LET e == mapping[1]
             found == SelectSeq(df.columns, LAMBDA c : lower(c) \in e.variations)
             d == IF has_column(df, e.col) THEN df
                  ELSE IF found # <<>> THEN rename(df, found[Len(found)], e.col)
                  ELSE assign_scalar(df, e.col, NaN)
         IN standardize_columns_last_match(d, Tail(mapping))

\* lines 94-105, one canonical column after the other
RECURSIVE standardize_columns(_, _)
standardize_columns(df, mapping) ==
    IF mapping = <<>> THEN df
    ELSE LET e == mapping[1]
             found == SelectSeq(df.columns, LAMBDA c : lower(c) \in e.variations)
             d == IF has_column(df, e.col) THEN df
                  ELSE IF found # <<>> THEN rename(df, found[1], e.col)
                  ELSE assign_scalar(df, e.col, NaN)
         IN standardize_columns(d, Tail(mapping))

clean_data(df) ==
    standardize_columns(
        clean_desarrollador(
            clean_decision(
                clean_rechazos(
                    clean_dates(df, date_columns)))),
        expected_cols_mapping)

---------------------------------------------------------------------------
(* load_all_sheets *)

\* pd.read_excel(xl_file, sheet_name) followed by df['Semana'] = sheet_name
read_sheet(sh) ==
    assign_scalar([columns |-> sh.columns, rows |-> sh.rows], "Semana", Str(sh.name))

\* lines 26-33: the frames of the sheets whose name carries the marker,
\* in workbook order
all_sheets_of(wb) ==
    LET matched == SelectSeq(wb.sheets, LAMBDA sh : has_week_marker(sh.name))
    IN [i \in DOMAIN matched |-> read_sheet(matched[i])]

\* lines 27-33: the names appended to self.weeks_list
matched_names(wb) ==
    LET matched == SelectSeq(wb.sheets, LAMBDA sh : has_week_marker(sh.name))
    IN [i \in DOMAIN matched |-> matched[i].name]

\* the load that takes a workbook without week sheets as an empty table
load_all_sheets_tolerant(wb, weeks0, data0) ==
    IF ~wb.ok
    THEN [raised |-> TRUE, weeks_list |-> weeks0, all_data |-> data0]
    ELSE [raised |-> FALSE,
          weeks_list |-> weeks0 \o matched_names(wb),
          all_data |-> clean_data(
              IF all_sheets_of(wb) = <<>>
              THEN assign_scalar(EmptyFrame, "Semana", NaN)
              ELSE concat(all_sheets_of(wb)))]

\* The outcome of load_all_sheets on workbook wb for an instance whose
\* week list is weeks0 and table data0: raised tells whether the exception
\* left the method (lines 41-43).  pd.ExcelFile raises on a file that is no
\* spreadsheet, before any sheet is read; pd.concat raises on an empty list
\* of frames, after the loop.
load_all_sheets(wb, weeks0, data0) ==
    IF ~wb.ok
    THEN [raised |-> TRUE, weeks_list |-> weeks0, all_data |-> data0]
    ELSE IF all_sheets_of(wb) = <<>>
    THEN [raised |-> TRUE,
          weeks_list |-> weeks0 \o matched_names(wb),
          all_data |-> data0]
    ELSE [raised |-> FALSE,
          weeks_list |-> weeks0 \o matched_names(wb),
          all_data |-> clean_data(concat(all_sheets_of(wb)))]

---------------------------------------------------------------------------
(* Numbers *)

\* What a division by zero leaves where its quotient was expected: int / 0
\* raises ZeroDivisionError and the mean of an empty Series is NaN. No
\* quotient of two counts is negative, so the value stands for itself.
ZeroDivisionError == 0 - 1

\* The integer nearest to a / b (a >= 0, b > 0), an exact tie going to the
\* even neighbour: what round() of CPython and of numpy return for the
\* quotients of this model (every tie with b < 160 is an exact binary float).
round_half_even(a, b) ==
    LET q == a \div b
        r == a % b
    IN IF b = 0 THEN ZeroDivisionError
       ELSE IF 2 * r > b THEN q + 1
       ELSE IF 2 * r < b THEN q
       ELSE IF q % 2 = 0 THEN q ELSE q + 1

\* round(a / b, 2), in hundredths
round2(a, b) == round_half_even(a * 100, b)

\* the percentage cut to two decimals instead of rounded
porcentaje_rechazo_truncated(rechazadas, total) ==
    IF total > 0 THEN (rechazadas * 10000) \div total ELSE 0

\* the percentage computed without the test of the total
porcentaje_rechazo_unguarded(rechazadas, total) == round2(rechazadas * 100, total)

\* round((rechazadas / total * 100) if total > 0 else 0, 2), in hundredths
porcentaje_rechazo(rechazadas, total) ==
    IF total > 0 THEN round2(rechazadas * 100, total) ELSE 0

\* a / b as an unrounded float: the fraction itself
Frac(a, b) == [num |-> a, den |-> b]

---------------------------------------------------------------------------
(* Aggregations *)

\* len(df[df[c] == Str(v)])
count_eq(df, c, v) == len(where_eq(df, c, Str(v)))

\* the table taken for the week without the selection by Semana
week_of_unfiltered(df, semana) == df

week_of(df, semana) == where_eq(df, "Semana", Str(semana))

\* the keys of a dict filled by one assignment per element of weeks_list
week_keys(weeks) == unique_seq(weeks)

\* the reviewer's count taken from the rejected cards only
qa_count_rejected(week_data, qa) ==
    count_eq(where_eq(week_data, "PM", qa), "Aceptado/Rechazado", "RECHAZADO")

\* lines 126-127: qa_counts[qa]
qa_count(week_data, qa) == len(where_eq(week_data, "PM", qa))

\* the reviewer's cards per loaded week
qa_promedio_semanal_per_reviewer(df, weeks, qa_data) ==
    IF Len(weeks) > 0 THEN Frac(len(qa_data), Len(weeks)) ELSE Frac(0, 1)

\* line 143: len(all_data['Semana'].unique()) / len(weeks_list), not
\* rounded; qa_data, the reviewer's cards, is not read
qa_promedio_semanal(df, weeks, qa_data) ==
    IF Len(weeks) > 0 THEN Frac(nunique(df, "Semana"), Len(weeks)) ELSE Frac(0, 1)

\* lines 107-149
get_qa_statistics_complete(df, weeks) ==
    LET weekly(semana) ==
            LET week_data == week_of(df, semana)
                qas == dropna_unique(week_data, "PM")
            IN [key |-> semana,
                tarjetas_por_qa |->
                    [i \in DOMAIN qas |->
                        [key |-> qas[i], value |-> qa_count(week_data, qas[i])]],
                rechazadas_por_qa |->
                    [i \in DOMAIN qas |->
                        [key |-> qas[i],
                         value |-> count_eq(where_eq(week_data, "PM", qas[i]),
                                            "Aceptado/Rechazado", "RECHAZADO")]],
                total_semana |-> len(week_data),
                total_rechazadas_semana |->
                    count_eq(week_data, "Aceptado/Rechazado", "RECHAZADO")]
        keys == week_keys(weeks)
        qas_total == dropna_unique(df, "PM")
    IN [weekly |-> [i \in DOMAIN keys |-> weekly(keys[i])],
        historical |->
            [por_qa |->
                [i \in DOMAIN qas_total |->
                    LET qa_data == where_eq(df, "PM", qas_total[i])
                    IN [key |-> qas_total[i],
                        total_revisadas |-> len(qa_data),
                        total_rechazadas |->
                            count_eq(qa_data, "Aceptado/Rechazado", "RECHAZADO"),
                        promedio_semanal |-> qa_promedio_semanal(df, weeks, qa_data)]],
             total_rechazadas |-> count_eq(df, "Aceptado/Rechazado", "RECHAZADO"),
             total_revisadas |-> len(df)]]

\* the accepted cards taken as the cards that are not rejected
channel_entry_complement(data) ==
    LET total == len(data)
        rechazadas == count_eq(data, "Aceptado/Rechazado", "RECHAZADO")
    IN [revisadas |-> total,
        rechazadas |-> rechazadas,
        aceptadas |-> total - rechazadas,
        porcentaje_rechazo |-> porcentaje_rechazo(rechazadas, total)]

\* lines 168-177 and 181-190: the four figures of one selection of cards
channel_entry(data) ==
    LET total == len(data)
        rechazadas == count_eq(data, "Aceptado/Rechazado", "RECHAZADO")
        aceptadas == count_eq(data, "Aceptado/Rechazado", "APROBADO")
    IN [revisadas |-> total,
        rechazadas |-> rechazadas,
        aceptadas |-> aceptadas,
        porcentaje_rechazo |-> porcentaje_rechazo(rechazadas, total)]

\* lines 185-190 and 228-233: the historical entry, with its own keys
historical_entry(e) ==
    [total_revisadas |-> e.revisadas,
     total_rechazadas |-> e.rechazadas,
     total_aceptadas |-> e.aceptadas,
     porcentaje_rechazo |-> e.porcentaje_rechazo]

\* lines 151-192
get_web_statistics_complete(df, weeks) ==
    LET keys == week_keys(weeks)
    IN [weekly |->
            [i \in DOMAIN keys |->
                [key |-> keys[i],
                 value |-> channel_entry(
                     where_eq(week_of(df, keys[i]), "Web/App", Str("Web")))]],
        historical |->
            historical_entry(channel_entry(where_eq(df, "Web/App", Str("Web"))))]

\* lines 194-235
get_app_statistics_complete(df, weeks) ==
    LET keys == week_keys(weeks)
    IN [weekly |->
            [i \in DOMAIN keys |->
                [key |-> keys[i],
                 value |-> channel_entry(
                     where_eq(week_of(df, keys[i]), "Web/App", Str("App")))]],
        historical |->
            historical_entry(channel_entry(where_eq(df, "Web/App", Str("App"))))]

\* df[['Descripción', 'Aceptado/Rechazado']].fillna("Desconocido").to_dict('records')
cards_of(data) ==
    [i \in DOMAIN data.rows |->
        [descripcion |-> fillna(data.rows[i]["Descripción"], Str("Desconocido")),
         decision |-> fillna(data.rows[i]["Aceptado/Rechazado"], Str("Desconocido"))]]

\* the new pair placed before the pairs of equal k
insert_desc_unstable(sorted, x) ==
    LET before == SelectSeq(sorted, LAMBDA y : y.k > x.k)
        after == SelectSeq(sorted, LAMBDA y : y.k <= x.k)
    IN before \o <<x>> \o after

\* The place of a new pair [k, item] among pairs already sorted by
\* descending k: after every pair whose k is at least its own.
insert_desc(sorted, x) ==
    LET before == SelectSeq(sorted, LAMBDA y : y.k >= x.k)
        after == SelectSeq(sorted, LAMBDA y : y.k < x.k)
    IN before \o <<x>> \o after

\* sorted(pairs, key=k, reverse=True): Python's sort is stable, also with
\* reverse=True
RECURSIVE sorted_desc(_)
sorted_desc(pairs) ==
    IF pairs = <<>> THEN <<>>
    ELSE insert_desc(sorted_desc(SubSeq(pairs, 1, Len(pairs) - 1)),
                     pairs[Len(pairs)])

\* dict(sorted(d.items(), key=lambda x: x[1][field], reverse=True)), the
\* values of `field` given as totals[i] for items[i]
sorted_by_total(items, totals) ==
    LET s == sorted_desc([i \in DOMAIN items |-> [k |-> totals[i], item |-> items[i]]])
    IN [i \in DOMAIN s |-> s[i].item]

\* 'web'.capitalize(), 'app'.capitalize()
capitalize(x) ==
    CASE x = "web" -> "Web"
      [] x = "app" -> "App"
      [] OTHER -> x

\* every week of weeks_list given an entry, also a week without cards
weeks_with_cards_all(entries) == entries

\* lines 261-268: `if total_week > 0`, the weeks that enter weekly_summary
weeks_with_cards(entries) == SelectSeq(entries, LAMBDA e : e.total_tarjetas > 0)

\* lines 237-291
get_dev_statistics(df, weeks, dev_type) ==
    LET filtered_data == where_eq(df, "Web/App", Str(capitalize(dev_type)))
        devs == dropna_unique(filtered_data, "Desarrollador")
        dev_data(dev) == where_eq(filtered_data, "Desarrollador", dev)
        week_entry(dev, semana) ==
            LET week_dev_data == week_of(dev_data(dev), semana)
                total_week == len(week_dev_data)
                rechazadas_week ==
                    count_eq(week_dev_data, "Aceptado/Rechazado", "RECHAZADO")
            IN [key |-> semana,
                total_tarjetas |-> total_week,
                rechazadas |-> rechazadas_week,
                aceptadas |-> count_eq(week_dev_data, "Aceptado/Rechazado", "APROBADO"),
                porcentaje_rechazo |-> porcentaje_rechazo(rechazadas_week, total_week),
                cards |-> cards_of(week_dev_data)]
        weekly_summary(dev) ==
            LET keys == week_keys(weeks)
                all == [i \in DOMAIN keys |-> week_entry(dev, keys[i])]
            IN weeks_with_cards(all)
        historical(dev) ==
            LET total == len(dev_data(dev))
                rechazadas == count_eq(dev_data(dev), "Aceptado/Rechazado", "RECHAZADO")
            IN [key |-> dev,
                total_tarjetas |-> total,
                rechazadas |-> rechazadas,
                aceptadas |-> count_eq(dev_data(dev), "Aceptado/Rechazado", "APROBADO"),
                promedio_semanal_historico |->
                    IF Len(weeks) > 0 THEN round2(total, Len(weeks)) ELSE 0,
                porcentaje_rechazo |-> porcentaje_rechazo(rechazadas, total),
                semanas_activo |-> nunique(dev_data(dev), "Semana")]
        stats == [i \in DOMAIN devs |-> historical(devs[i])]
    IN [dev_stats |->
            sorted_by_total(stats, [i \in DOMAIN stats |-> stats[i].total_tarjetas]),
        dev_weekly_details |->
            [i \in DOMAIN devs |-> [key |-> devs[i], value |-> weekly_summary(devs[i])]]]

\* the cards of the channel over the weeks loaded
size_mean_of_loaded(data, num_semanas) == round2(len(data), num_semanas)

\* lines 326-330: round(data.groupby('Semana').size().mean(), 2) if the
\* grouped counts are not empty else 0.  groupby gives one count per week
\* that has a row of data; num_semanas, the weeks loaded, is not read.
size_mean(data, num_semanas) ==
    IF len(data) > 0 THEN round2(len(data), nunique(data, "Semana")) ELSE 0

\* lines 293-344
get_pm_statistics_complete(df, weeks) ==
    LET num_semanas == Len(weeks)
        prioridad(p) ==
            LET total == count_eq(df, "Prioridad en la Tarjeta", p)
            IN [total |-> total,
                promedio_semanal |->
                    IF num_semanas > 0 THEN round2(total, num_semanas) ELSE 0]
        \* round(df[df['Web/App'] == c].groupby('Semana').size().mean(), 2),
        \* 0 when no week has a card of the channel
        promedio(c) ==
            IF num_semanas > 0
            THEN size_mean(where_eq(df, "Web/App", Str(c)), num_semanas)
            ELSE 0
        keys == week_keys(weeks)
    IN [prioridades |-> [alta |-> prioridad("Alta"),
                         media |-> prioridad("Media"),
                         baja |-> prioridad("Baja")],
        promedio_semanal |-> [web |-> promedio("Web"),
                              app |-> promedio("App"),
                              total |-> promedio("Web") + promedio("App")],
        por_semana |->
            [i \in DOMAIN keys |->
                LET week_data == week_of(df, keys[i])
                IN [key |-> keys[i],
                    alta |-> count_eq(week_data, "Prioridad en la Tarjeta", "Alta"),
                    media |-> count_eq(week_data, "Prioridad en la Tarjeta", "Media"),
                    baja |-> count_eq(week_data, "Prioridad en la Tarjeta", "Baja"),
                    web |-> count_eq(week_data, "Web/App", "Web"),
                    app |-> count_eq(week_data, "Web/App", "App")]]]

\* df[c].value_counts().to_dict(): the count of every non-missing value
\* (value_counts drops the missing ones); the order of the keys is pandas'
\* and is not modelled
value_counts(df, c) ==
    LET vals == {v \in Range(column(df, c)) : ~isna(v)}
    IN [v \in vals |-> len(where_eq(df, c, v))]

\* the count over the weeks of the whole table
site_promedio_of_table(count, site_data, df) ==
    round2(count, nunique(df, "Semana"))

\* lines 361-364 and 375-377: round(count / num_semanas if num_semanas > 0
\* else 0, 2) with num_semanas = site_data['Semana'].nunique(); the table
\* df is not read
site_promedio(count, site_data, df) ==
    IF nunique(site_data, "Semana") > 0
    THEN round2(count, nunique(site_data, "Semana"))
    ELSE 0

\* lines 346-385
get_site_statistics_complete(df) ==
    LET sitios == dropna_unique(df, "Sitio")
        entry(sitio) ==
            LET site_data == where_eq(df, "Sitio", sitio)
                total == len(site_data)
                rechazadas == count_eq(site_data, "Aceptado/Rechazado", "RECHAZADO")
                aceptadas == count_eq(site_data, "Aceptado/Rechazado", "APROBADO")
                num_semanas == nunique(site_data, "Semana")
            IN [key |-> sitio,
                total |-> total,
                web |-> count_eq(site_data, "Web/App", "Web"),
                app |-> count_eq(site_data, "Web/App", "App"),
                rechazadas |-> rechazadas,
                aceptadas |-> aceptadas,
                promedio_por_semana |-> site_promedio(total, site_data, df),
                promedio_rechazadas_semana |-> site_promedio(rechazadas, site_data, df),
                promedio_aceptadas_semana |-> site_promedio(aceptadas, site_data, df),
                plataformas |-> value_counts(site_data, "Plataforma"),
                semanas_activo |-> num_semanas]
        stats == [i \in DOMAIN sitios |-> entry(sitios[i])]
    IN sorted_by_total(stats, [i \in DOMAIN stats |-> stats[i].total])

\* lines 387-399
get_platform_report(df) ==
    LET platform_counts == value_counts(df, "Plataforma")
        clean_key(k) == IF isna(k) THEN Str("Sin especificar") ELSE k
    IN [k \in {clean_key(x) : x \in DOMAIN platform_counts} |->
            LET src == CHOOSE x \in DOMAIN platform_counts : clean_key(x) = k
            IN platform_counts[src]]

\* lines 401-411
get_cards_by_week(df, week) ==
    LET week_data == week_of(df, week)
    IN IF ~has_column(week_data, "Descripción")
       THEN [i \in DOMAIN week_data.rows |->
                [decision |-> fillna(week_data.rows[i]["Aceptado/Rechazado"],
                                     Str("Desconocido"))]]
       ELSE cards_of(week_data)

\* lines 413-439
generate_all_statistics(df, weeks) ==
    LET dev_web == get_dev_statistics(df, weeks, "web")
        dev_app == get_dev_statistics(df, weeks, "app")
        keys == week_keys(weeks)
    IN [qa |-> get_qa_statistics_complete(df, weeks),
        web |-> get_web_statistics_complete(df, weeks),
        app |-> get_app_statistics_complete(df, weeks),
        dev_web |-> dev_web.dev_stats,
        dev_app |-> dev_app.dev_stats,
        dev_web_weekly_details |-> dev_web.dev_weekly_details,
        dev_app_weekly_details |-> dev_app.dev_weekly_details,
        pm |-> get_pm_statistics_complete(df, weeks),
        sites |-> get_site_statistics_complete(df),
        platforms |-> get_platform_report(df),
        weeks_list |-> weeks,
        total_weeks |-> Len(weeks),
        cards_by_week |->
            [i \in DOMAIN keys |->
                [key |-> keys[i], value |-> get_cards_by_week(df, keys[i])]]]

---------------------------------------------------------------------------
(* Input workbooks *)

\* sheet names carrying the week marker, in the order a workbook holds them
WeekNames ==
    <<"Tarjetas semana 2", "TARJETAS SEMANA 1", "Tarjetas Semana 3",
      "Tarjetas semana 4">>

\* a sheet without the marker; it is never read
OtherSheet == [name |-> "Resumen", columns |-> <<>>, rows |-> <<>>]

Unparseable == [ok |-> FALSE, sheets |-> <<>>]

Workbook(sheets) == [ok |-> TRUE, sheets |-> sheets]

\* a row of a sheet with header h, its cells taken from the tuple t
RowOf(t, h) == [c \in Range(h) |-> t[c]]

\* the ways to cut n rows into k consecutive sheets (a sheet may be empty)
Cuts(k, n) ==
    {c \in [0..k -> 0..n] :
        c[0] = 0 /\ c[k] = n /\ \A j \in 1..k : c[j-1] <= c[j]}

\* k week sheets with headers hs over the rows rs cut by c
WeekSheets(k, hs, rs, c) ==
    [j \in 1..k |->
        [name |-> WeekNames[j],
         columns |-> hs[j],
         rows |-> [i \in 1..(c[j] - c[j-1]) |-> RowOf(rs[c[j-1] + i], hs[j])]]]

\* the sheets ws with a sheet without the marker after the first of them
WithOtherSheet(ws) == <<ws[1], OtherSheet>> \o Tail(ws)

\* excel is a workbook of at most MaxSheets week sheets and MaxRows rows
\* whose headers are in Headers and whose rows come from Tuples, with a
\* sheet without the marker among its sheets; or the workbook without any
\* week sheet; or the file that is no spreadsheet.
ExcelIn(Headers, Tuples) ==
    \/ excel \in {Workbook(<<OtherSheet>>), Unparseable}
    \/ \E k \in 1..MaxSheets, n \in 0..MaxRows :
        \E c \in Cuts(k, n), hs \in [1..k -> Headers], rs \in [1..n -> Tuples] :
            excel = Workbook(WithOtherSheet(WeekSheets(k, hs, rs, c)))

\* Cards with a reviewer, a channel, a decision and a developer
CardHeader == <<"PM", "Web/App", "Aceptado/Rechazado", "Desarrollador">>

Card(pm, channel, decision, dev) ==
    [c \in Range(CardHeader) |->
        CASE c = "PM" -> pm
          [] c = "Web/App" -> channel
          [] c = "Aceptado/Rechazado" -> decision
          [] c = "Desarrollador" -> dev]

CardTuples ==
    {Card(Str("Ana"), Str("Web"), Str("RECHAZADO"), Str("Dev1")),
     Card(NaN, Str("Web"), Str("APROBADO"), Str("Dev2")),
     Card(Str("Luis"), Str("App"), NaN, Str("Dev1"))}

\* The scenario of two weeks: three Web cards (two rejected, one approved)
\* then two pending App cards
ScenarioWorkbook ==
    LET rej == Card(Str("Ana"), Str("Web"), Str("RECHAZADO"), Str("Dev1"))
        anon == Card(NaN, Str("Web"), Str("RECHAZADO"), Str("Dev1"))
        apr == Card(Str("Eva"), Str("Web"), Str("APROBADO"), Str("Dev2"))
        pen == Card(Str("Luis"), Str("App"), Str("PENDIENTE"), Str("Dev1"))
    IN Workbook(WeekSheets(2, <<CardHeader, CardHeader>>,
                           <<rej, anon, apr, pen, pen>>,
                           [j \in 0..2 |-> IF j = 0 THEN 0 ELSE IF j = 1 THEN 3 ELSE 5]))

\* One week of four Web cards of three developers: Dev1, Dev2, Dev3, Dev2
RankingWorkbook ==
    LET card(dev) == Card(Str("Ana"), Str("Web"), Str("APROBADO"), Str(dev))
    IN Workbook(WeekSheets(1, <<CardHeader>>,
                           <<card("Dev1"), card("Dev2"), card("Dev3"), card("Dev2")>>,
                           [j \in 0..1 |-> IF j = 0 THEN 0 ELSE 4]))

\* Two weeks of cards of two sites: Noticias then Deportes in the first
\* week, Deportes alone in the second
SitesWorkbook ==
    LET card(sitio, decision) ==
            [c \in {"Sitio", "Aceptado/Rechazado"} |->
                IF c = "Sitio" THEN Str(sitio) ELSE Str(decision)]
        header == <<"Sitio", "Aceptado/Rechazado">>
    IN Workbook(WeekSheets(2, <<header, header>>,
                           <<card("Noticias", "APROBADO"),
                             card("Deportes", "RECHAZADO"),
                             card("Deportes", "RECHAZADO")>>,
                           [j \in 0..2 |-> IF j = 0 THEN 0 ELSE IF j = 1 THEN 2 ELSE 3]))

\* Cards with a channel, a site, a platform, a priority, a description and
\* a decision, under headers that clean_data renames
SiteHeader ==
    <<"Web o App", "Sitio", "Plataforma", "Prioridad", "Description",
      "Aceptado/Rechazado">>

SiteCard(channel, sitio, plataforma, prioridad, description, decision) ==
    [c \in Range(SiteHeader) |->
        CASE c = "Web o App" -> channel
          [] c = "Sitio" -> sitio
          [] c = "Plataforma" -> plataforma
          [] c = "Prioridad" -> prioridad
          [] c = "Description" -> description
          [] c = "Aceptado/Rechazado" -> decision]

SiteTuples ==
    {SiteCard(Str("Web"), Str("Deportes"), Str("iOS"), Str("Alta"),
              Str("Login"), Str("RECHAZADO")),
     SiteCard(Str("App"), Str("Deportes"), NaN, Str("Media"),
              NaN, Str("APROBADO")),
     SiteCard(Str("Web"), NaN, Str("Android"), NaN,
              Str("Pago"), NaN)}

\* Sheets that spell the developer column differently and may lack the
\* decision or the rejection-count column
SheetHeaders ==
    {<<"Desarrollador", "Número de rechazos", "Aceptado/Rechazado">>,
     <<"Developer", "Desarrollador Web", "Número de rechazos">>,
     <<"Desarrollador Web", "Developer", "Aceptado/Rechazado">>}

SheetColumns == UNION {Range(h) : h \in SheetHeaders}

Raw(desarrollador, developer, desarrollador_web, rechazos, decision) ==
    [c \in SheetColumns |->
        CASE c = "Desarrollador" -> desarrollador
          [] c = "Developer" -> developer
          [] c = "Desarrollador Web" -> desarrollador_web
          [] c = "Número de rechazos" -> rechazos
          [] c = "Aceptado/Rechazado" -> decision]

RawTuples ==
    {Raw(Str("Ana"), Str("Luis"), NaN, Num(2), Str("APROBADO")),
     Raw(NaN, NaN, Str("Eva"), Str("abc"), NaN),
     Raw(Str("Ana"), NaN, Str("Eva"), Num(0 - 1), Str("EN REVISION")),
     Raw(NaN, NaN, NaN, Str("3"), Str("RECHAZADO"))}

\* Sheets that spell the reviewer, the description and the channel
\* differently, without any developer, site, platform or priority column
ConceptHeaders ==
    {<<"PM", "Descripción">>,
     <<"QA", "Tester", "Description">>,
     <<"Tester", "QA", "Web o App">>}

ConceptColumns == UNION {Range(h) : h \in ConceptHeaders}

Concept(pm, qa, tester, descripcion, description, web_o_app) ==
    [c \in ConceptColumns |->
        CASE c = "PM" -> pm
          [] c = "QA" -> qa
          [] c = "Tester" -> tester
          [] c = "Descripción" -> descripcion
          [] c = "Description" -> description
          [] c = "Web o App" -> web_o_app]

ConceptTuples ==
    {Concept(Str("Ana"), Str("Luis"), NaN, Str("Login"), Str("Home"), Str("Web")),
     Concept(NaN, NaN, Str("Eva"), NaN, Str("Pago"), Str("App")),
     Concept(Str("Eva"), Str("Ana"), Str("Luis"), NaN, NaN, NaN)}

---------------------------------------------------------------------------
(* The aggregator: one ComprehensiveQADashboard instance *)

Absent == [exists |-> FALSE, content |-> <<>>]
File(x) == [exists |-> TRUE, content |-> x]

NoResult == [op |-> "none", arg |-> "", value |-> <<>>]
Returned(op, arg, value) == [op |-> op, arg |-> arg, value |-> value]

\* the outcome of a handler: the HTTP status (0 for the boot hook, which
\* answers nobody), whether it reported success, and the spreadsheet it
\* stored for loading, if it got that far
Outcome(handler, status, success, stored) ==
    [handler |-> handler, status |-> status, success |-> success, stored |-> stored]

Idle == Outcome("none", 0, FALSE, Absent)

InitService ==
    /\ xlsx_file = Absent
    /\ html_file = Absent
    /\ response = Idle
    /\ booted = FALSE
    /\ req_count = 0
    /\ in_flight = <<>>

InitInstance ==
    /\ pc = "new"
    /\ weeks_list = <<>>
    /\ all_data = EmptyFrame
    /\ result = NoResult
    /\ summaries = <<>>

\* lines 15-19 with a load that succeeds
Construct ==
    /\ pc = "new"
    /\ LET r == load_all_sheets(excel, <<>>, EmptyFrame)
       IN /\ ~r.raised
          /\ weeks_list' = r.weeks_list
          /\ all_data' = r.all_data
    /\ pc' = "ready"
    /\ UNCHANGED <<excel, result, summaries>>
    /\ UNCHANGED appVars

\* lines 15-19 with a load that raises (lines 41-43): the constructor
\* raises and no instance exists
ConstructRaises ==
    /\ pc = "new"
    /\ load_all_sheets(excel, <<>>, EmptyFrame).raised
    /\ pc' = "error"
    /\ UNCHANGED <<excel, weeks_list, all_data, result, summaries>>
    /\ UNCHANGED appVars

\* a call of one aggregation method on the instance: no method assigns
\* self.all_data or self.weeks_list or changes them in place
Call(op, arg, value) ==
    /\ pc = "ready"
    /\ result' = Returned(op, arg, value)
    /\ UNCHANGED <<excel, pc, weeks_list, all_data, summaries>>
    /\ UNCHANGED appVars

GetQaStatistics == Call("qa", "", get_qa_statistics_complete(all_data, weeks_list))

GetWebStatistics == Call("web", "", get_web_statistics_complete(all_data, weeks_list))

GetAppStatistics == Call("app", "", get_app_statistics_complete(all_data, weeks_list))

GetDevStatistics ==
    \E dev_type \in {"web", "app"} :
        Call("dev", dev_type, get_dev_statistics(all_data, weeks_list, dev_type))

GetPmStatistics == Call("pm", "", get_pm_statistics_complete(all_data, weeks_list))

GetSiteStatistics == Call("sites", "", get_site_statistics_complete(all_data))

GetPlatformReport == Call("platforms", "", get_platform_report(all_data))

\* the cards of a week selected by cutting the instance's table to the week
GetCardsByWeekInPlace ==
    \E week \in Range(weeks_list) :
        /\ pc = "ready"
        /\ all_data' = week_of(all_data, week)
        /\ result' = Returned("cards", week, get_cards_by_week(all_data, week))
        /\ UNCHANGED <<excel, pc, weeks_list, summaries>>
        /\ UNCHANGED appVars

GetCardsByWeek ==
    \E week \in Range(weeks_list) :
        Call("cards", week, get_cards_by_week(all_data, week))

\* the aggregation reloading the workbook into the instance before it runs
GenerateAllStatisticsReloading ==
    /\ pc = "ready"
    /\ Len(summaries) < MaxCalls
    /\ LET r == load_all_sheets(excel, weeks_list, all_data)
           stats == generate_all_statistics(r.all_data, r.weeks_list)
       IN /\ weeks_list' = r.weeks_list
          /\ all_data' = r.all_data
          /\ result' = Returned("all", "", stats)
          /\ summaries' = Append(summaries, stats)
    /\ UNCHANGED <<excel, pc>>
    /\ UNCHANGED appVars

\* lines 413-439; the returned summary is also kept in call order
GenerateAllStatistics ==
    /\ pc = "ready"
    /\ Len(summaries) < MaxCalls
    /\ LET stats == generate_all_statistics(all_data, weeks_list)
       IN /\ result' = Returned("all", "", stats)
          /\ summaries' = Append(summaries, stats)
    /\ UNCHANGED <<excel, pc, weeks_list, all_data>>
    /\ UNCHANGED appVars

Next ==
    \/ Construct
    \/ ConstructRaises
    \/ GetQaStatistics
    \/ GetWebStatistics
    \/ GetAppStatistics
    \/ GetDevStatistics
    \/ GetPmStatistics
    \/ GetSiteStatistics
    \/ GetPlatformReport
    \/ GetCardsByWeek
    \/ GenerateAllStatistics

\* the instance is built on a workbook of cards of one of the two kinds
Init ==
    /\ \/ ExcelIn({CardHeader}, CardTuples)
       \/ ExcelIn({SiteHeader}, SiteTuples)
       \/ excel \in {ScenarioWorkbook, RankingWorkbook, SitesWorkbook}
    /\ InitInstance
    /\ InitService

Spec == Init /\ [][Next]_vars

\* the construction alone, on a workbook of raw sheets or of sheets that
\* spell their headers differently
NextLoad ==
    \/ Construct
    \/ ConstructRaises

InitLoad ==
    /\ \/ ExcelIn(SheetHeaders, RawTuples)
       \/ ExcelIn(ConceptHeaders, ConceptTuples)
    /\ InitInstance
    /\ InitService

SpecLoad == InitLoad /\ [][NextLoad]_vars

\* The instance with load_all_sheets called again on it

\* lines 21-43 called on the loaded instance: self.weeks_list is emptied
\* only by __init__ (line 18), so the names are appended to the ones it
\* holds; self.all_data is assigned anew.  The workbook loaded before, so it
\* loads again.
LoadAllSheets ==
    /\ pc = "ready"
    /\ Len(weeks_list) < (1 + MaxLoads) * Len(matched_names(excel))
    /\ LET r == load_all_sheets(excel, weeks_list, all_data)
       IN /\ ~r.raised
          /\ weeks_list' = r.weeks_list
          /\ all_data' = r.all_data
    /\ result' = Returned("load", "", <<>>)
    /\ UNCHANGED <<excel, pc, summaries>>
    /\ UNCHANGED appVars

NextReload ==
    \/ Construct
    \/ ConstructRaises
    \/ LoadAllSheets
    \/ GetQaStatistics
    \/ GetDevStatistics
    \/ GetPmStatistics

InitReload ==
    /\ ExcelIn({CardHeader}, CardTuples)
    /\ InitInstance
    /\ InitService

SpecReload == InitReload /\ [][NextReload]_vars

\* The rejection percentage alone, on the two counts it is computed from:
\* rechazadas of total cards

Counts(rechazadas, total) == [rechazadas |-> rechazadas, total |-> total]

InitPercent ==
    /\ excel = Unparseable
    /\ pc = "percent"
    /\ weeks_list = <<>>
    /\ all_data = EmptyFrame
    /\ summaries = <<>>
    /\ \E total \in 0..MaxReviewed :
        \E rechazadas \in 0..total :
            result = Returned("counts", Counts(rechazadas, total), <<>>)
    /\ InitService

\* lines 176, 189, 219, 232, 256, 276
RoundPercentage ==
    /\ pc = "percent"
    /\ result.op = "counts"
    /\ result' = Returned("porcentaje_rechazo", result.arg,
                          porcentaje_rechazo(result.arg.rechazadas, result.arg.total))
    /\ UNCHANGED <<excel, pc, weeks_list, all_data, summaries>>
    /\ UNCHANGED appVars

NextPercent == RoundPercentage

SpecPercent == InitPercent /\ [][NextPercent]_vars

---------------------------------------------------------------------------
(* The service: src/app.py *)

\* generate_html_dashboard embeds the summary in the page
Render(stats) == [complete |-> TRUE, stats |-> stats]

\* a page cut short by a failed write
Truncated == [complete |-> FALSE, stats |-> <<>>]

\* the output file opened for writing before the summary is computed
save_dashboard_streaming(df, weeks, html, disk) ==
    CASE disk = "stats_raise" -> File(Truncated)
      [] disk = "html_open_fails" -> html
      [] disk = "html_write_fails" -> File(Truncated)
      [] OTHER -> File(Render(generate_all_statistics(df, weeks)))

\* save_dashboard (generator lines 2631-2646) on the instance (df, weeks):
\* the content of the output file afterwards.  The summary is complete
\* before the page is rendered; an error of open() or write() is caught and
\* printed; when generate_all_statistics raises ("stats_raise", an
\* exception out of the aggregation such as MemoryError) the file is not
\* opened.
save_dashboard(df, weeks, html, disk) ==
    LET stats == generate_all_statistics(df, weeks)
        html_content == Render(stats)
    IN CASE disk = "stats_raise" -> html
         [] disk = "html_open_fails" -> html
         [] disk = "html_write_fails" -> File(Truncated)
         [] OTHER -> File(html_content)

\* line 2634 is outside the try of lines 2639-2646: an exception of
\* generate_all_statistics leaves save_dashboard, one of open() or write()
\* does not
save_dashboard_raises(disk) == disk = "stats_raise"

\* what an HTTP GET of a spreadsheet url gives
ConnError == [kind |-> "conn_error", content |-> Unparseable]
HttpError == [kind |-> "http_error", content |-> Unparseable]
Fetched(wb) == [kind |-> "ok", content |-> wb]

Result(status, success, stored, xlsx, html) ==
    [response |-> Outcome("generate", status, success, stored),
     xlsx_file |-> xlsx, html_file |-> html]

\* app.py lines 84-95: the answer once save_dashboard has left h as the page
generated(h, stored, env) ==
    IF ~h.exists THEN Result(500, FALSE, stored, stored, h)
    ELSE Result(200, TRUE, stored, IF env.remove_ok THEN Absent ELSE stored, h)

\* the handler swallowing the constructor's exception
generate_from_file_swallowing(r, stored, env, html) ==
    generated(IF r.raised THEN html
              ELSE save_dashboard(r.all_data, r.weeks_list, html, env.disk),
              stored, env)

\* app.py lines 82-102: the answer to the stored file once it is loaded as
\* the instance r; an exception out of save_dashboard is answered 500
generate_from_instance(r, stored, env, html) ==
    IF save_dashboard_raises(env.disk)
    THEN Result(500, FALSE, stored, stored,
                save_dashboard(r.all_data, r.weeks_list, html, env.disk))
    ELSE generated(save_dashboard(r.all_data, r.weeks_list, html, env.disk),
                   stored, env)

\* the handler deleting the page of the earlier generation when the load fails
generate_from_file_clearing(r, stored, env, html) ==
    IF r.raised THEN Result(500, FALSE, stored, stored, Absent)
    ELSE generate_from_instance(r, stored, env, html)

\* app.py lines 81-102: r is what the constructor gave on the stored file; its
\* exception is answered 500 by `except Exception`, before save_dashboard
generate_from_file(r, stored, env, html) ==
    IF r.raised THEN Result(500, FALSE, stored, stored, html)
    ELSE generate_from_instance(r, stored, env, html)

\* app.py lines 64-102: POST /generate with request req in environment env,
\* the two files holding xlsx and html
generate_dashboard(req, env, xlsx, html) ==
    IF ~req.json THEN Result(400, FALSE, Absent, xlsx, html)
    ELSE IF ~req.url THEN Result(400, FALSE, Absent, xlsx, html)
    ELSE IF env.fetch.kind # "ok" THEN Result(400, FALSE, Absent, xlsx, html)
    ELSE IF env.disk = "xlsx_fails" THEN Result(500, FALSE, Absent, xlsx, html)
    ELSE generate_from_file(load_all_sheets(env.fetch.content, <<>>, EmptyFrame),
                            File(env.fetch.content), env, html)

Booted(success, stored, xlsx, html) ==
    [response |-> Outcome("boot", 0, success, stored),
     xlsx_file |-> xlsx, html_file |-> html]

\* app.py lines 34-38: r is what the constructor gave on the stored file; its
\* exception ends in the warning, before save_dashboard and the success message
regenerate_from_file(r, stored, env, html) ==
    IF r.raised THEN Booted(FALSE, stored, stored, html)
    ELSE Booted(~save_dashboard_raises(env.disk), stored, stored,
                save_dashboard(r.all_data, r.weeks_list, html, env.disk))

\* app.py lines 19-38: the boot-time generation.  The listing may fail or
\* be empty; the download is not checked for its HTTP status, so an error
\* page is stored as the spreadsheet; every exception ends in the warning.
descargar_excel_desde_supabase(env, xlsx, html) ==
    IF env.listing # "ok" THEN Booted(FALSE, Absent, xlsx, html)
    ELSE IF env.fetch.kind = "conn_error" THEN Booted(FALSE, Absent, xlsx, html)
    ELSE IF env.disk = "xlsx_fails" THEN Booted(FALSE, Absent, xlsx, html)
    ELSE regenerate_from_file(load_all_sheets(env.fetch.content, <<>>, EmptyFrame),
                              File(env.fetch.content), env, html)

\* a handler leaves r: its answer and the two files
Leaves(r) ==
    /\ response' = r.response
    /\ xlsx_file' = r.xlsx_file
    /\ html_file' = r.html_file

\* the spreadsheets the urls of the model serve
RemoteWorkbooks ==
    {Unparseable,
     Workbook(<<OtherSheet>>),
     Workbook(WithOtherSheet(WeekSheets(1, <<CardHeader>>,
         <<Card(Str("Ana"), Str("Web"), Str("RECHAZADO"), Str("Dev1"))>>,
         [j \in 0..1 |-> j]))),
     Workbook(WeekSheets(2, <<CardHeader, CardHeader>>,
         <<Card(NaN, Str("Web"), Str("APROBADO"), Str("Dev2")),
           Card(Str("Luis"), Str("App"), NaN, Str("Dev1"))>>,
         [j \in 0..2 |-> j]))}

Fetches == {ConnError, HttpError} \cup {Fetched(wb) : wb \in RemoteWorkbooks}

\* what may go wrong inside save_dashboard, and in a handler
SaveOutcomes == {"ok", "stats_raise", "html_open_fails", "html_write_fails"}
DiskOutcomes == SaveOutcomes \cup {"xlsx_fails"}

\* app.py lines 44-46: the hook that runs once, before the first request
AutoGenerate ==
    /\ ~booted
    /\ \E listing \in {"ok", "error", "empty"}, fetch \in Fetches, disk \in DiskOutcomes :
        Leaves(descargar_excel_desde_supabase(
                   [listing |-> listing, fetch |-> fetch, disk |-> disk],
                   xlsx_file, html_file))
    /\ booted' = TRUE
    /\ UNCHANGED <<req_count, in_flight>>
    /\ UNCHANGED coreVars

\* app.py lines 64-102
GenerateDashboard ==
    /\ booted
    /\ req_count < MaxRequests
    /\ \E json \in BOOLEAN, url \in BOOLEAN, fetch \in Fetches,
          disk \in DiskOutcomes, remove_ok \in BOOLEAN :
        Leaves(generate_dashboard(
                   [json |-> json, url |-> url],
                   [fetch |-> fetch, disk |-> disk, remove_ok |-> remove_ok],
                   xlsx_file, html_file))
    /\ req_count' = req_count + 1
    /\ UNCHANGED <<booted, in_flight>>
    /\ UNCHANGED coreVars

\* app.py lines 104-119
ServeDashboard ==
    /\ booted
    /\ req_count < MaxRequests
    /\ response' = Outcome("serve", IF html_file.exists THEN 200 ELSE 404,
                           html_file.exists, Absent)
    /\ req_count' = req_count + 1
    /\ UNCHANGED <<xlsx_file, html_file, booted, in_flight>>
    /\ UNCHANGED coreVars

NextApp ==
    \/ AutoGenerate
    \/ GenerateDashboard
    \/ ServeDashboard

\* the service starts with neither file; no instance of its own is kept
InitApp ==
    /\ excel = Unparseable
    /\ InitInstance
    /\ InitService

SpecApp == InitApp /\ [][NextApp]_vars

\* save_dashboard alone, on an instance and an output file that may hold
\* the page of an earlier generation

EarlierDashboard ==
    File(Render(generate_all_statistics(
        load_all_sheets(RankingWorkbook, <<>>, EmptyFrame).all_data,
        load_all_sheets(RankingWorkbook, <<>>, EmptyFrame).weeks_list)))

\* generator lines 2631-2646; the call is recorded with the outcome of the
\* environment and the output file as it was before the call
SaveDashboard ==
    /\ pc = "ready"
    /\ \E disk \in SaveOutcomes :
        /\ html_file' = save_dashboard(all_data, weeks_list, html_file, disk)
        /\ result' = Returned("save", disk, html_file)
    /\ UNCHANGED <<excel, pc, weeks_list, all_data, summaries>>
    /\ UNCHANGED <<xlsx_file, response, booted, req_count, in_flight>>

NextSave ==
    \/ Construct
    \/ ConstructRaises
    \/ SaveDashboard

InitSave ==
    /\ ExcelIn({CardHeader}, CardTuples)
    /\ InitInstance
    /\ xlsx_file = Absent
    /\ html_file \in {Absent, EarlierDashboard}
    /\ response = Idle
    /\ booted = FALSE
    /\ req_count = 0
    /\ in_flight = <<>>

SpecSave == InitSave /\ [][NextSave]_vars

\* /generate requests handled at the same time (the server of app.run
\* handles each request in a thread of its own), every request with a JSON
\* body and a url that answers with a file.  A request is at a line of
\* generate_dashboard: "get" (75), "construct" (81), "save" (82), "remove"
\* (84), or "done"; it holds the file its url serves, the file its instance
\* was loaded from, the page it wrote and its status.

Request(at, url, loaded, page, status) ==
    [at |-> at, url |-> url, loaded |-> loaded, page |-> page, status |-> status]

\* the files the urls serve: no spreadsheet, and two spreadsheets with cards
UrlWorkbooks == RemoteWorkbooks \ {Workbook(<<OtherSheet>>)}

Answered(r, status) == Request("done", r.url, r.loaded, r.page, status)

HandlerStep(p, r) ==
    /\ in_flight' = [in_flight EXCEPT ![p] = r]
    /\ UNCHANGED <<response, booted, req_count>>
    /\ UNCHANGED coreVars

\* app.py lines 75-78: the file of the url written to reporte_tarjetas.xlsx
DownloadAt(p) ==
    /\ in_flight[p].at = "get"
    /\ xlsx_file' = File(in_flight[p].url)
    /\ UNCHANGED html_file
    /\ HandlerStep(p, Request("construct", in_flight[p].url, Absent, Absent, 0))

\* app.py line 81: the instance built from what reporte_tarjetas.xlsx holds
\* now; no file, or a file that does not load, raises and is answered 500
\* (lines 100-102)
ConstructFromFileAt(p) ==
    /\ in_flight[p].at = "construct"
    /\ UNCHANGED <<xlsx_file, html_file>>
    /\ HandlerStep(p,
          IF ~xlsx_file.exists THEN Answered(in_flight[p], 500)
          ELSE IF load_all_sheets(xlsx_file.content, <<>>, EmptyFrame).raised
          THEN Answered(in_flight[p], 500)
          ELSE Request("save", in_flight[p].url, xlsx_file, Absent, 0))

\* the page that the instance loaded from file f writes over html
page_of_instance(f, html) ==
    save_dashboard(load_all_sheets(f.content, <<>>, EmptyFrame).all_data,
                   load_all_sheets(f.content, <<>>, EmptyFrame).weeks_list,
                   html, "ok")

\* app.py line 82: save_dashboard of the request's instance
SaveFromInstanceAt(p) ==
    /\ in_flight[p].at = "save"
    /\ html_file' = page_of_instance(in_flight[p].loaded, html_file)
    /\ UNCHANGED xlsx_file
    /\ HandlerStep(p, Request("remove", in_flight[p].url, in_flight[p].loaded,
                              page_of_instance(in_flight[p].loaded, html_file), 0))

\* app.py lines 84-95: the page exists; os.remove of the spreadsheet, whose
\* failure is passed over; 200
RemoveAndAnswerAt(p) ==
    /\ in_flight[p].at = "remove"
    /\ xlsx_file' = Absent
    /\ UNCHANGED html_file
    /\ HandlerStep(p, Answered(in_flight[p], IF html_file.exists THEN 200 ELSE 500))

Download == \E p \in DOMAIN in_flight : DownloadAt(p)

ConstructFromFile == \E p \in DOMAIN in_flight : ConstructFromFileAt(p)

SaveFromInstance == \E p \in DOMAIN in_flight : SaveFromInstanceAt(p)

RemoveAndAnswer == \E p \in DOMAIN in_flight : RemoveAndAnswerAt(p)

NextConcurrent ==
    \/ Download
    \/ ConstructFromFile
    \/ SaveFromInstance
    \/ RemoveAndAnswer

\* the boot hook has run and left no file
InitConcurrent ==
    /\ excel = Unparseable
    /\ InitInstance
    /\ xlsx_file = Absent
    /\ html_file = Absent
    /\ response = Idle
    /\ booted = TRUE
    /\ req_count = 0
    /\ in_flight \in [1..MaxInFlight ->
                        {Request("get", wb, Absent, Absent, 0) : wb \in UrlWorkbooks}]

SpecConcurrent == InitConcurrent /\ [][NextConcurrent]_vars

---------------------------------------------------------------------------
(* Properties of the aggregations *)

\* the rows of the unified table, by index
RowsWhere(col, v) == {i \in DOMAIN all_data.rows : all_data.rows[i][col] = v}

WeekRows(semana) == RowsWhere("Semana", Str(semana))
ChannelRows(channel) == RowsWhere("Web/App", Str(channel))
RejectedRows == RowsWhere("Aceptado/Rechazado", Str("RECHAZADO"))
ApprovedRows == RowsWhere("Aceptado/Rechazado", Str("APROBADO"))

\* p hundredths is a value of two decimals nearest to rejected / reviewed * 100
NearestPercent(p, rejected, reviewed) ==
    LET d == p * reviewed - rejected * 10000
    IN 2 * (IF d < 0 THEN 0 - d ELSE d) <= reviewed

\* the percentage p reported for `rejected` of `reviewed` cards
PercentOk(p, rejected, reviewed) ==
    /\ p >= 0 /\ p <= 10000
    /\ IF reviewed > 0 THEN NearestPercent(p, rejected, reviewed) ELSE p = 0

ChannelOf(op) == IF op = "web" THEN "Web" ELSE "App"

\* C1: in the Web and the App statistics, every week of weeks_list has an
\* entry, and the rejection percentage of every weekly entry and of the
\* historical entry is rejected / reviewed * 100 rounded to two decimals
\* (0 when nothing was reviewed), within [0, 100], for the cards of that
\* channel counted in the unified table.
C1_RejectionPercentage ==
    result.op \in {"web", "app"} =>
        LET ch == ChannelRows(ChannelOf(result.op))
            st == result.value
        IN /\ \A w \in Range(weeks_list) : \E i \in DOMAIN st.weekly : st.weekly[i].key = w
           /\ \A i \in DOMAIN st.weekly :
                LET rows == ch \cap WeekRows(st.weekly[i].key)
                IN PercentOk(st.weekly[i].value.porcentaje_rechazo,
                             Cardinality(rows \cap RejectedRows), Cardinality(rows))
           /\ PercentOk(st.historical.porcentaje_rechazo,
                        Cardinality(ch \cap RejectedRows), Cardinality(ch))

\* a week of three cards of the channel, two of them rejected (66.67 %),
\* beside a week without any card of the channel
C1_Witness ==
    /\ result.op \in {"web", "app"}
    /\ \E i, j \in DOMAIN result.value.weekly :
        /\ result.value.weekly[i].value.revisadas = 3
        /\ result.value.weekly[i].value.porcentaje_rechazo = 6667
        /\ result.value.weekly[j].value.revisadas = 0
        /\ result.value.weekly[j].value.porcentaje_rechazo = 0

\* C2: in the reviewer statistics, for every week of weeks_list, the
\* per-reviewer counts add up to the week's total less the week's rows
\* without a reviewer; the week's total counts every row of the week and the
\* historical total every row of the table.
C2_ReviewerCountsSum ==
    result.op = "qa" =>
        LET st == result.value
        IN /\ \A w \in Range(weeks_list) : \E i \in DOMAIN st.weekly : st.weekly[i].key = w
           /\ \A i \in DOMAIN st.weekly :
                LET e == st.weekly[i]
                    rows == WeekRows(e.key)
                    missing == {r \in rows : isna(all_data.rows[r]["PM"])}
                IN /\ e.total_semana = Cardinality(rows)
                   /\ SumSeq([q \in DOMAIN e.tarjetas_por_qa |-> e.tarjetas_por_qa[q].value])
                        = e.total_semana - Cardinality(missing)
           /\ st.historical.total_revisadas = Len(all_data.rows)

\* a week with two reviewers and a card without reviewer
C2_Witness ==
    /\ result.op = "qa"
    /\ \E i \in DOMAIN result.value.weekly :
        /\ Len(result.value.weekly[i].tarjetas_por_qa) = 2
        /\ result.value.weekly[i].total_semana = 3

\* the first row of the table with a card of developer dev in the channel
FirstRowOf(rows) == CHOOSE i \in rows : \A j \in rows : i <= j

DevRows(dev_type, dev) ==
    ChannelRows(capitalize(dev_type)) \cap RowsWhere("Desarrollador", dev)

\* C3: the developers of a channel are listed by descending historical
\* total; of two developers with the same total, the one whose first card of
\* the channel comes first in the unified table is listed first.
C3_DeveloperRanking ==
    result.op = "dev" =>
        LET ds == result.value.dev_stats
        IN /\ \A p \in DOMAIN ds :
                ds[p].total_tarjetas = Cardinality(DevRows(result.arg, ds[p].key))
           /\ \A p, q \in DOMAIN ds :
                p < q =>
                    \/ ds[p].total_tarjetas > ds[q].total_tarjetas
                    \/ /\ ds[p].total_tarjetas = ds[q].total_tarjetas
                       /\ FirstRowOf(DevRows(result.arg, ds[p].key))
                            < FirstRowOf(DevRows(result.arg, ds[q].key))

\* three developers: the one with two cards, met second, is listed first,
\* and the two with one card each keep the order of the table
C3_Witness ==
    /\ result.op = "dev"
    /\ Len(result.value.dev_stats) = 3
    /\ result.value.dev_stats[1].total_tarjetas = 2
    /\ result.value.dev_stats[2].total_tarjetas = 1
    /\ result.value.dev_stats[3].total_tarjetas = 1
    /\ FirstRowOf(DevRows(result.arg, result.value.dev_stats[1].key)) = 2

IsScenario ==
    /\ pc = "ready"
    /\ Len(weeks_list) = 2
    /\ Len(all_data.rows) = 5
    /\ LET w1 == WeekRows(weeks_list[1])
           w2 == WeekRows(weeks_list[2])
       IN /\ Cardinality(w1) = 3 /\ w1 \subseteq ChannelRows("Web")
          /\ Cardinality(w1 \cap RejectedRows) = 2
          /\ Cardinality(w1 \cap ApprovedRows) = 1
          /\ Cardinality(w2) = 2 /\ w2 \subseteq ChannelRows("App")
          /\ w2 \subseteq RowsWhere("Aceptado/Rechazado", Str("PENDIENTE"))

\* C6: on the scenario, the historical Web figures are reviewed 3,
\* rejected 2, accepted 1, 66.67 %, and the historical App figures are
\* reviewed 2, rejected 0, accepted 0, 0 %.
C6_Scenario ==
    IsScenario =>
        /\ result.op = "web" =>
            result.value.historical =
                [total_revisadas |-> 3, total_rechazadas |-> 2,
                 total_aceptadas |-> 1, porcentaje_rechazo |-> 6667]
        /\ result.op = "app" =>
            result.value.historical =
                [total_revisadas |-> 2, total_rechazadas |-> 0,
                 total_aceptadas |-> 0, porcentaje_rechazo |-> 0]
        /\ result.op = "all" =>
            /\ result.value.web.historical.porcentaje_rechazo = 6667
            /\ result.value.app.historical.total_aceptadas = 0

\* the App statistics have been computed on the scenario
C6_Witness == IsScenario /\ result.op = "app"

---------------------------------------------------------------------------
(* Properties of the loader and of clean_data *)

\* the unified table before clean_data
RawTable == concat(all_sheets_of(excel))

DevColumns == {c \in Range(RawTable.columns) : is_dev_col(c)}

\* C5: a row whose only populated developer-variant column is B holds B's
\* value in the canonical Desarrollador column after clean_data, whatever
\* the spelling of the variant columns of the table.
C5_DeveloperCoalesced ==
    pc = "ready" =>
        \A i \in DOMAIN RawTable.rows :
            \A B \in DevColumns :
                (/\ ~isna(RawTable.rows[i][B])
                 /\ \A A \in DevColumns \ {B} : isna(RawTable.rows[i][A]))
                    => all_data.rows[i]["Desarrollador"] = RawTable.rows[i][B]

\* C7: once the constructor has run on a workbook none of whose sheet names
\* carries the marker, it has raised: there is no instance, no table, no
\* week and no summary.
C7_NoWeekSheetFails ==
    (/\ pc # "new"
     /\ excel.ok
     /\ \A i \in DOMAIN excel.sheets : ~has_week_marker(excel.sheets[i].name))
        => /\ pc = "error"
           /\ weeks_list = <<>>
           /\ all_data = EmptyFrame
           /\ result = NoResult
           /\ summaries = <<>>

\* the constructor has raised on a spreadsheet that holds a sheet
C7_Witness ==
    /\ pc = "error"
    /\ excel.ok
    /\ Len(excel.sheets) >= 1

DecisionValues == {Str("APROBADO"), Str("RECHAZADO"), Str("PENDIENTE")}

\* C9: after clean_data the decision of every row is one of APROBADO,
\* RECHAZADO and PENDIENTE, and is not missing.
C9_DecisionCategorical ==
    pc = "ready" =>
        \A i \in DOMAIN all_data.rows :
            all_data.rows[i]["Aceptado/Rechazado"] \in DecisionValues

\* C10: after clean_data the rejection count of every row is a number
\* greater than or equal to 0.
C10_RejectionCountNonNegative ==
    pc = "ready" =>
        \A i \in DOMAIN all_data.rows :
            /\ all_data.rows[i]["Número de rechazos"].k = "num"
            /\ all_data.rows[i]["Número de rechazos"].n >= 0

---------------------------------------------------------------------------
(* Properties of the service *)

\* the spreadsheet cannot be loaded: it is no spreadsheet, or none of its
\* sheet names carries the marker
LoadFails(wb) ==
    \/ ~wb.ok
    \/ \A i \in DOMAIN wb.sheets : ~has_week_marker(wb.sheets[i].name)

\* a handler ran in this step and stored a spreadsheet that cannot be loaded
LoadFailedInStep ==
    /\ (req_count' # req_count \/ booted' # booted)
    /\ response'.stored.exists
    /\ LoadFails(response'.stored.content)

\* C8: a handler whose load fails reports no success, /generate answers
\* with an error status, and qa-dashboard.html is left as it was.
C8_LoadFailureIsHardError ==
    [][LoadFailedInStep =>
        /\ ~response'.success
        /\ response'.handler = "generate" => response'.status >= 400
        /\ html_file' = html_file]_vars

\* /generate has answered 500 on a spreadsheet without week sheets while the
\* dashboard of an earlier generation is in place
C8_Witness ==
    /\ response.handler = "generate"
    /\ response.status = 500
    /\ response.stored.exists
    /\ response.stored.content.ok
    /\ LoadFails(response.stored.content)
    /\ html_file.exists
    /\ html_file.content.complete

---------------------------------------------------------------------------
(* Properties of clean_data, continued *)

\* the cells of the source sheets that carry the marker, sheet after sheet:
\* for every row its sheet name, its header and its cells
SourceRows ==
    LET matched == SelectSeq(excel.sheets, LAMBDA sh : has_week_marker(sh.name))
    IN Concat([i \in DOMAIN matched |->
                  [j \in DOMAIN matched[i].rows |->
                      [name |-> matched[i].name,
                       columns |-> Range(matched[i].columns),
                       cells |-> matched[i].rows[j]]]])

\* the cell of source row r under header c: missing when its sheet lacks c
SourceCell(r, c) == IF c \in r.columns THEN r.cells[c] ELSE NaN

\* the headers of the week sheets in table column order: sheet after sheet
SourceColumnSeq ==
    LET matched == SelectSeq(excel.sheets, LAMBDA sh : has_week_marker(sh.name))
    IN Concat([i \in DOMAIN matched |-> matched[i].columns])

\* the headers of the week sheets
SourceColumns == Range(SourceColumnSeq)

\* C11: after clean_data the rejection count of a row is 0 when the source
\* cell is missing (also because no sheet has the column) or holds the text
\* 'abc', and is the source number when the source cell holds a number.
C11_RejectionCountCoerced ==
    pc = "ready" =>
        /\ Len(all_data.rows) = Len(SourceRows)
        /\ has_column(all_data, "Número de rechazos")
        /\ \A i \in DOMAIN SourceRows :
            LET src == SourceCell(SourceRows[i], "Número de rechazos")
                out == all_data.rows[i]["Número de rechazos"]
            IN /\ isna(src) => out = Num(0)
               /\ src = Str("abc") => out = Num(0)
               /\ src.k = "num" => out = src

\* a table with a row holding 'abc', now 0, beside a row that keeps its 2
C11_Witness ==
    /\ pc = "ready"
    /\ \E i, j \in DOMAIN SourceRows :
        /\ SourceCell(SourceRows[i], "Número de rechazos") = Str("abc")
        /\ all_data.rows[i]["Número de rechazos"] = Num(0)
        /\ SourceCell(SourceRows[j], "Número de rechazos") = Num(2)
        /\ all_data.rows[j]["Número de rechazos"] = Num(2)

\* C16: after clean_data the table has the column Desarrollador, no row
\* misses its developer, and a row without a value in any developer-like
\* column of the source (also because there is no such column) holds
\* 'Desarrollador Desconocido'.
C16_DeveloperNeverMissing ==
    pc = "ready" =>
        /\ has_column(all_data, "Desarrollador")
        /\ \A i \in DOMAIN all_data.rows :
            /\ ~isna(all_data.rows[i]["Desarrollador"])
            /\ (\A c \in SourceColumns :
                    is_dev_col(c) => isna(SourceCell(SourceRows[i], c)))
                => all_data.rows[i]["Desarrollador"] = Str("Desarrollador Desconocido")

\* a table of two rows loaded from sheets without any developer-like column
C16_Witness ==
    /\ pc = "ready"
    /\ Len(all_data.rows) = 2
    /\ \A c \in SourceColumns : ~is_dev_col(c)
    /\ all_data.rows[2]["Desarrollador"] = Str("Desarrollador Desconocido")

\* C17: after a load, weeks_list is the names of the sheets carrying the
\* marker, in workbook order and without repetition; the rows of the table
\* are the rows of these sheets, sheet after sheet and in sheet order, each
\* with the name of its sheet as its week.
C17_WeeksAndRowOrder ==
    pc = "ready" =>
        /\ weeks_list = SelectSeq([i \in DOMAIN excel.sheets |-> excel.sheets[i].name],
                                  has_week_marker)
        /\ \A i, j \in DOMAIN weeks_list : weeks_list[i] = weeks_list[j] => i = j
        /\ Len(all_data.rows) = Len(SourceRows)
        /\ \A i \in DOMAIN SourceRows :
            /\ all_data.rows[i]["Semana"] = Str(SourceRows[i].name)
            /\ all_data.rows[i]["Aceptado/Rechazado"] =
                 fillna(SourceCell(SourceRows[i], "Aceptado/Rechazado"), Str("PENDIENTE"))

\* two week sheets around the sheet without marker, one row each, the rows
\* differing in their decision
C17_Witness ==
    /\ pc = "ready"
    /\ Len(weeks_list) = 2
    /\ Len(excel.sheets) = 3
    /\ Len(all_data.rows) = 2
    /\ all_data.rows[1]["Semana"] # all_data.rows[2]["Semana"]
    /\ all_data.rows[1]["Aceptado/Rechazado"] # all_data.rows[2]["Aceptado/Rechazado"]

\* the concepts of the fixed mapping other than the site and the platform,
\* which have one spelling only
CoalescedConcepts == {"PM", "Web/App", "Prioridad en la Tarjeta", "Descripción"}

\* the source columns that stand for the canonical column e.col
ConceptSources(e) ==
    {c \in SourceColumns : c = e.col \/ lower(c) \in e.variations}

\* C14: a row whose only populated source column of a concept is B holds
\* B's value in the canonical column of the concept after clean_data.
C14_ConceptCoalesced ==
    pc = "ready" =>
        \A m \in DOMAIN expected_cols_mapping :
            LET e == expected_cols_mapping[m]
            IN e.col \in CoalescedConcepts =>
                \A i \in DOMAIN SourceRows :
                    \A B \in ConceptSources(e) :
                        (/\ ~isna(SourceCell(SourceRows[i], B))
                         /\ \A A \in ConceptSources(e) \ {B} :
                                isna(SourceCell(SourceRows[i], A)))
                            => all_data.rows[i][e.col] = SourceCell(SourceRows[i], B)

\* the first header, in table column order, that is a spelling of e.col
FirstSpelling(e) ==
    LET hits == {i \in DOMAIN SourceColumnSeq : lower(SourceColumnSeq[i]) \in e.variations}
    IN SourceColumnSeq[CHOOSE i \in hits : \A j \in hits : i <= j]

\* C15: after clean_data every canonical column of the mapping exists
\* exactly once; one that the sheets do not have holds, row by row, the
\* cells of the first column in table column order whose lowercased name is
\* an accepted spelling, that column being renamed; it is missing in every
\* row when no column is such a spelling.
C15_CanonicalColumns ==
    pc = "ready" =>
        \A m \in DOMAIN expected_cols_mapping :
            LET e == expected_cols_mapping[m]
                spelled == {c \in SourceColumns : lower(c) \in e.variations}
            IN /\ Cardinality({i \in DOMAIN all_data.columns :
                                  all_data.columns[i] = e.col}) = 1
               /\ e.col \notin SourceColumns /\ spelled # {} =>
                    /\ ~has_column(all_data, FirstSpelling(e))
                    /\ \A c \in spelled \ {FirstSpelling(e)} : has_column(all_data, c)
                    /\ \A i \in DOMAIN SourceRows :
                        all_data.rows[i][e.col] =
                            SourceCell(SourceRows[i], FirstSpelling(e))
               /\ e.col \notin SourceColumns /\ spelled = {} =>
                    \A i \in DOMAIN all_data.rows : isna(all_data.rows[i][e.col])

\* Tester comes before QA in the table and became PM, QA is still there,
\* and the site column was created
C15_Witness ==
    /\ pc = "ready"
    /\ Len(all_data.rows) = 2
    /\ "PM" \notin SourceColumns
    /\ SourceColumnSeq[1] = "Tester"
    /\ has_column(all_data, "QA")
    /\ ~has_column(all_data, "Tester")
    /\ all_data.rows[1]["PM"] = Str("Eva")
    /\ isna(all_data.rows[1]["Sitio"])

---------------------------------------------------------------------------
(* Properties of the aggregations, continued *)

\* the sum of the values of f over the set S of its arguments
RECURSIVE SumOver(_, _)
SumOver(f, S) ==
    IF S = {} THEN 0
    ELSE LET x == CHOOSE y \in S : TRUE
         IN f[x] + SumOver(f, S \ {x})

\* the rows of the unified table without a platform
MissingPlatformRows == {i \in DOMAIN all_data.rows : isna(all_data.rows[i]["Plataforma"])}

\* C12: the platform report counts every platform value of the table, its
\* counts add up to the number of rows, and when rows lack a platform their
\* number is reported under 'Sin especificar'.
C12_PlatformReport ==
    result.op = "platforms" =>
        LET counts == result.value
        IN /\ \A i \in DOMAIN all_data.rows \ MissingPlatformRows :
                LET v == all_data.rows[i]["Plataforma"]
                IN v \in DOMAIN counts
                   /\ counts[v] = Cardinality(RowsWhere("Plataforma", v))
           /\ SumOver(counts, DOMAIN counts) = Len(all_data.rows)
           /\ MissingPlatformRows # {} =>
                /\ Str("Sin especificar") \in DOMAIN counts
                /\ counts[Str("Sin especificar")] = Cardinality(MissingPlatformRows)

\* the rows of week w, by index and in table order
WeekRowSeq(w) ==
    SelectSeq([i \in DOMAIN all_data.rows |-> i],
              LAMBDA i : all_data.rows[i]["Semana"] = Str(w))

\* no week sheet has a column that is a spelling of the description
NoDescriptionInSource ==
    \A c \in SourceColumns : lower(c) \notin {"descripción", "description"}

\* C13: get_cards_by_week(w) returns one record per row of week w, in row
\* order, with the decision of the row and its description; the records
\* have the decision as their only field when no sheet has a description
\* column.
C13_CardsByWeek ==
    result.op = "cards" =>
        /\ Len(result.value) = Len(WeekRowSeq(result.arg))
        /\ \A j \in DOMAIN WeekRowSeq(result.arg) :
             /\ result.value[j].decision =
                    all_data.rows[WeekRowSeq(result.arg)[j]]["Aceptado/Rechazado"]
             /\ IF NoDescriptionInSource
                THEN DOMAIN result.value[j] = {"decision"}
                ELSE result.value[j].descripcion =
                         fillna(all_data.rows[WeekRowSeq(result.arg)[j]]["Descripción"],
                                Str("Desconocido"))


\* a ratio in hundredths that is a number, and 0 when its denominator is 0
RatioOk(p, denominator) ==
    /\ p # ZeroDivisionError
    /\ p >= 0
    /\ denominator = 0 => p = 0

\* the ratios of one entry of the Web or App statistics
EntryRatiosOk(e, reviewed) == RatioOk(e.porcentaje_rechazo, reviewed)

QaRatiosOk(v) ==
    \A i \in DOMAIN v.historical.por_qa :
        LET p == v.historical.por_qa[i].promedio_semanal
        IN /\ p.den # 0
           /\ p.num >= 0
           /\ Len(weeks_list) = 0 => p.num = 0

ChannelRatiosOk(v) ==
    /\ \A i \in DOMAIN v.weekly :
        EntryRatiosOk(v.weekly[i].value, v.weekly[i].value.revisadas)
    /\ RatioOk(v.historical.porcentaje_rechazo, v.historical.total_revisadas)

DevRatiosOk(stats, details) ==
    /\ \A i \in DOMAIN stats :
        /\ RatioOk(stats[i].porcentaje_rechazo, stats[i].total_tarjetas)
        /\ RatioOk(stats[i].promedio_semanal_historico, Len(weeks_list))
    /\ \A i \in DOMAIN details :
        \A j \in DOMAIN details[i].value :
            RatioOk(details[i].value[j].porcentaje_rechazo,
                    details[i].value[j].total_tarjetas)

PmRatiosOk(v) ==
    /\ \A p \in {v.prioridades.alta, v.prioridades.media, v.prioridades.baja} :
        RatioOk(p.promedio_semanal, Len(weeks_list))
    /\ RatioOk(v.promedio_semanal.web,
               Cardinality({all_data.rows[i]["Semana"] : i \in ChannelRows("Web")}))
    /\ RatioOk(v.promedio_semanal.app,
               Cardinality({all_data.rows[i]["Semana"] : i \in ChannelRows("App")}))
    /\ v.promedio_semanal.total = v.promedio_semanal.web + v.promedio_semanal.app

SiteRatiosOk(v) ==
    \A i \in DOMAIN v :
        /\ RatioOk(v[i].promedio_por_semana, v[i].semanas_activo)
        /\ RatioOk(v[i].promedio_rechazadas_semana, v[i].semanas_activo)
        /\ RatioOk(v[i].promedio_aceptadas_semana, v[i].semanas_activo)

\* C18: every ratio of every statistic is a number, never the outcome of a
\* division by zero, and is 0 when its denominator is 0: the reviewers'
\* weekly average, the rejection percentages of the channels and of the
\* developers, the developers' weekly average, the weekly averages of the
\* priorities and of the channels, the per-week averages of the sites; also
\* on a table without rows.
C18_ZeroDenominator ==
    /\ result.op = "qa" => QaRatiosOk(result.value)
    /\ result.op \in {"web", "app"} => ChannelRatiosOk(result.value)
    /\ result.op = "dev" =>
        DevRatiosOk(result.value.dev_stats, result.value.dev_weekly_details)
    /\ result.op = "pm" => PmRatiosOk(result.value)
    /\ result.op = "sites" => SiteRatiosOk(result.value)
    /\ result.op = "all" =>
        /\ QaRatiosOk(result.value.qa)
        /\ ChannelRatiosOk(result.value.web)
        /\ ChannelRatiosOk(result.value.app)
        /\ DevRatiosOk(result.value.dev_web, result.value.dev_web_weekly_details)
        /\ DevRatiosOk(result.value.dev_app, result.value.dev_app_weekly_details)
        /\ PmRatiosOk(result.value.pm)
        /\ SiteRatiosOk(result.value.sites)

\* every statistic computed on a table of two weeks without rows, where the
\* percentages and the channel averages have a zero denominator
C18_Witness ==
    /\ result.op = "all"
    /\ Len(all_data.rows) = 0
    /\ Len(weeks_list) = 2
    /\ result.value.web.historical.porcentaje_rechazo = 0
    /\ result.value.pm.promedio_semanal.total = 0


\* the week values that occur in the unified table
WeeksPresent == {all_data.rows[i]["Semana"] : i \in DOMAIN all_data.rows}

\* C20: the historical weekly average of every reviewer is the number of
\* distinct weeks present in the unified table over the number of weeks
\* loaded: one value for all reviewers, whatever their number of cards, and
\* at most 1.
C20_ReviewerWeeklyAverage ==
    result.op = "qa" =>
        \A i \in DOMAIN result.value.historical.por_qa :
            LET p == result.value.historical.por_qa[i].promedio_semanal
            IN /\ p = Frac(Cardinality(WeeksPresent), Len(weeks_list))
               /\ p.den > 0
               /\ p.num <= p.den

\* two reviewers with different numbers of cards
C20_Witness ==
    /\ result.op = "qa"
    /\ \E i, j \in DOMAIN result.value.historical.por_qa :
        /\ result.value.historical.por_qa[i].total_revisadas = 1
        /\ result.value.historical.por_qa[j].total_revisadas = 2
        /\ result.value.historical.por_qa[i].promedio_semanal =
               result.value.historical.por_qa[j].promedio_semanal

----------------------------------------------------------------------------
(* Properties of the rounding *)

\* rejected / reviewed * 100 rounded to two decimals with a tie going up,
\* in hundredths: floor(rejected * 10000 / reviewed + 1/2)
HalfUp(rejected, reviewed) ==
    (2 * rejected * 10000 + reviewed) \div (2 * reviewed)

\* C19: the rejection percentage of `rechazadas` of `total` cards, total > 0,
\* is the quotient rounded half-up to two decimals, a tie such as 1 of 32
\* (3.125) going up.
C19_RoundedHalfUp ==
    (result.op = "porcentaje_rechazo" /\ result.arg.total > 0) =>
        result.value = HalfUp(result.arg.rechazadas, result.arg.total)


---------------------------------------------------------------------------
(* Properties of the aggregations, by developer, priority and site *)

\* the keys of an ordered dict, and that none is repeated
Keys(d) == {d[i].key : i \in DOMAIN d}
UniqueKeys(d) == \A i, j \in DOMAIN d : d[i].key = d[j].key => i = j

\* the developers with a row of the channel
DevsOf(dev_type) ==
    {all_data.rows[i]["Desarrollador"] : i \in ChannelRows(capitalize(dev_type))}

\* the weeks in which the rows hold a card
WeeksOf(rows) == {all_data.rows[i]["Semana"].s : i \in rows}

\* C21: the developer statistics of a channel list a developer exactly when
\* the developer has a row of the channel; the developer's weekly breakdown
\* lists a week exactly when the developer has a card of the channel in it;
\* semanas_activo is the number of entries of that breakdown.
C21_DeveloperEntries ==
    result.op = "dev" =>
        LET stats == result.value.dev_stats
            details == result.value.dev_weekly_details
        IN /\ UniqueKeys(stats) /\ UniqueKeys(details)
           /\ Keys(stats) = DevsOf(result.arg)
           /\ Keys(details) = DevsOf(result.arg)
           /\ \A i \in DOMAIN details :
                /\ UniqueKeys(details[i].value)
                /\ Keys(details[i].value) =
                       WeeksOf(DevRows(result.arg, details[i].key))
                /\ \A j \in DOMAIN stats :
                    stats[j].key = details[i].key =>
                        stats[j].semanas_activo = Len(details[i].value)

\* a developer of the channel active in one of two loaded weeks, beside a
\* developer of the table without a card of the channel
C21_Witness ==
    /\ result.op = "dev"
    /\ Len(weeks_list) = 2
    /\ \E j \in DOMAIN result.value.dev_stats :
        result.value.dev_stats[j].semanas_activo = 1
    /\ \E i \in DOMAIN all_data.rows :
        all_data.rows[i]["Desarrollador"] \notin Keys(result.value.dev_stats)


\* p hundredths is a value of two decimals nearest to a / b
NearestHundredth(p, a, b) ==
    LET d == p * b - a * 100
    IN 2 * (IF d < 0 THEN 0 - d ELSE d) <= b

\* the mean p reported for a channel: its cards over the weeks that hold one
ChannelMeanOk(p, channel) ==
    LET rows == ChannelRows(channel)
    IN IF rows = {} THEN p = 0
       ELSE NearestHundredth(p, Cardinality(rows), Cardinality(WeeksOf(rows)))

\* the average p reported for a priority level with the total it is listed with
PriorityOk(e, level) ==
    /\ e.total = Cardinality(RowsWhere("Prioridad en la Tarjeta", Str(level)))
    /\ NearestHundredth(e.promedio_semanal, e.total, Len(weeks_list))

\* C22: in the priority statistics, the mean weekly count of the Web cards
\* is the number of Web cards over the number of weeks that hold a Web card,
\* rounded to two decimals, and 0 when no week holds one; likewise for App;
\* the weekly average of a priority level is its total over the number of
\* weeks loaded.
C22_WeeklyMeans ==
    result.op = "pm" =>
        /\ ChannelMeanOk(result.value.promedio_semanal.web, "Web")
        /\ ChannelMeanOk(result.value.promedio_semanal.app, "App")
        /\ PriorityOk(result.value.prioridades.alta, "Alta")
        /\ PriorityOk(result.value.prioridades.media, "Media")
        /\ PriorityOk(result.value.prioridades.baja, "Baja")

\* two weeks loaded, the two Web cards in one of them (mean 2.00), no App
\* card (mean 0) and one card of high priority (average 0.50)
C22_Witness ==
    /\ result.op = "pm"
    /\ Len(weeks_list) = 2
    /\ result.value.promedio_semanal.web = 200
    /\ result.value.promedio_semanal.app = 0
    /\ result.value.prioridades.alta.promedio_semanal = 50


\* the rows of a site
SiteRows(sitio) == RowsWhere("Sitio", sitio)

\* C23: the site statistics list every distinct non-missing site once, by
\* descending total; the per-week averages of a site (total, rejected,
\* accepted) are its counts over the number of distinct weeks in which the
\* site has a row.
C23_SiteAverages ==
    result.op = "sites" =>
        LET st == result.value
        IN /\ UniqueKeys(st)
           /\ Keys(st) = {all_data.rows[i]["Sitio"] : i \in DOMAIN all_data.rows}
                             \ {NaN}
           /\ \A i, j \in DOMAIN st : i < j => st[i].total >= st[j].total
           /\ \A i \in DOMAIN st :
                LET rows == SiteRows(st[i].key)
                    weeks == Cardinality(WeeksOf(rows))
                IN /\ st[i].total = Cardinality(rows)
                   /\ weeks > 0
                   /\ NearestHundredth(st[i].promedio_por_semana,
                                       Cardinality(rows), weeks)
                   /\ NearestHundredth(st[i].promedio_rechazadas_semana,
                                       Cardinality(rows \cap RejectedRows), weeks)
                   /\ NearestHundredth(st[i].promedio_aceptadas_semana,
                                       Cardinality(rows \cap ApprovedRows), weeks)

\* the site seen second listed first with two cards in two weeks, before a
\* site of one card that has one week of the two loaded (average 1.00)
C23_Witness ==
    /\ result.op = "sites"
    /\ Len(weeks_list) = 2
    /\ Len(result.value) = 2
    /\ result.value[1].key = Str("Deportes")
    /\ result.value[1].total = 2
    /\ all_data.rows[1]["Sitio"] = Str("Noticias")
    /\ result.value[2].total = 1
    /\ result.value[2].semanas_activo = 1
    /\ result.value[2].promedio_por_semana = 100


---------------------------------------------------------------------------
(* Properties of the instance as shared state *)

\* what the constructor made of the workbook
Loaded == load_all_sheets(excel, <<>>, EmptyFrame)

\* the statistic op(arg) of the table df of the weeks
StatisticOf(op, arg, df, weeks) ==
    CASE op = "qa" -> get_qa_statistics_complete(df, weeks)
      [] op = "web" -> get_web_statistics_complete(df, weeks)
      [] op = "app" -> get_app_statistics_complete(df, weeks)
      [] op = "dev" -> get_dev_statistics(df, weeks, arg)
      [] op = "pm" -> get_pm_statistics_complete(df, weeks)
      [] op = "sites" -> get_site_statistics_complete(df)
      [] op = "platforms" -> get_platform_report(df)
      [] op = "cards" -> get_cards_by_week(df, arg)
      [] op = "all" -> generate_all_statistics(df, weeks)

\* C24: whatever statistics were computed so far, in whatever order and
\* number, the instance still holds the table and the weeks that the
\* constructor loaded, and the statistic returned last is the one of that
\* table.
C24_AggregationsReadOnly ==
    pc = "ready" =>
        /\ all_data = Loaded.all_data
        /\ weeks_list = Loaded.weeks_list
        /\ result.op # "none" =>
            result.value = StatisticOf(result.op, result.arg,
                                       Loaded.all_data, Loaded.weeks_list)

\* the cards of a week asked after two summaries, on a table of two weeks
C24_Witness ==
    /\ Len(summaries) = 2
    /\ result.op = "cards"
    /\ Len(weeks_list) = 2
    /\ Len(all_data.rows) >= 2


---------------------------------------------------------------------------
(* Properties of save_dashboard *)

Dimensions ==
    {"qa", "web", "app", "dev_web", "dev_app", "dev_web_weekly_details",
     "dev_app_weekly_details", "pm", "sites", "platforms", "weeks_list",
     "total_weeks", "cards_by_week"}

\* st has every dimension, the weeks of the instance and their number, and
\* the cards of each week under one key
CompleteSummary(st) ==
    /\ DOMAIN st = Dimensions
    /\ st.weeks_list = weeks_list
    /\ st.total_weeks = Len(weeks_list)
    /\ Len(st.cards_by_week) = Len(weeks_list)
    /\ UniqueKeys(st.cards_by_week)
    /\ Keys(st.cards_by_week) = Range(weeks_list)
    /\ \A i \in DOMAIN st.cards_by_week :
        Len(st.cards_by_week[i].value) =
            Cardinality(WeekRows(st.cards_by_week[i].key))

\* C25: a page that save_dashboard wrote in full holds the complete summary
\* of the instance (all dimensions, weeks_list, total_weeks = len(weeks_list),
\* one cards_by_week key per week); when the aggregation raises, the output
\* file is left as it was, neither written nor truncated.
C25_RenderAfterSummary ==
    result.op = "save" =>
        /\ result.arg = "stats_raise" => html_file = result.value
        /\ result.arg = "ok" =>
            /\ html_file.exists
            /\ html_file.content.complete
            /\ CompleteSummary(html_file.content.stats)
        /\ (html_file # result.value /\ html_file.content.complete) =>
            CompleteSummary(html_file.content.stats)

\* the aggregation raised with the page of an earlier generation in place
C25_Witness ==
    /\ result.op = "save"
    /\ result.arg = "stats_raise"
    /\ result.value = EarlierDashboard
    /\ Len(weeks_list) = 2
    /\ Len(all_data.rows) = 2


---------------------------------------------------------------------------
(* Properties of the service, continued *)

\* the page of the spreadsheet wb, written in full
DashboardOf(wb) ==
    File(Render(generate_all_statistics(
        load_all_sheets(wb, <<>>, EmptyFrame).all_data,
        load_all_sheets(wb, <<>>, EmptyFrame).weeks_list)))

\* C29: when /generate answers 200, qa-dashboard.html holds the dashboard
\* of the spreadsheet fetched from the url of that request; a failed write
\* of the page is not answered with success.
C29_SuccessMeansWritten ==
    (response.handler = "generate" /\ response.status = 200) =>
        html_file = DashboardOf(response.stored.content)


\* C30: GET /qa-dashboard.html answers 404 as long as no generation has
\* written the file and serves it from then on: the file appears only in a
\* generation (boot or /generate), no request deletes it, whatever
\* /generate answers, and a /generate answered 400 changes neither
\* qa-dashboard.html nor reporte_tarjetas.xlsx.
C30_DashboardStaysServed ==
    [][/\ response'.handler = "serve" =>
            /\ response'.status = (IF html_file.exists THEN 200 ELSE 404)
            /\ html_file' = html_file
       /\ html_file.exists => html_file'.exists
       /\ html_file' # html_file => response'.handler \in {"boot", "generate"}
       /\ (response'.handler = "generate" /\ response'.status = 400) =>
            /\ html_file' = html_file
            /\ xlsx_file' = xlsx_file]_vars

\* the page of the boot-time generation served after a /generate that
\* stored a file that is no spreadsheet and answered 500
C30_Witness ==
    /\ response.handler = "serve"
    /\ response.status = 200
    /\ req_count = 2
    /\ xlsx_file.exists
    /\ xlsx_file.content = Unparseable
    /\ html_file.exists
    /\ html_file.content.complete


---------------------------------------------------------------------------
(* Properties of the weekly breakdowns *)

\* the sum of f[i] over the indexes of the sequence f
SumOfSeq(f) == SumOver(f, DOMAIN f)

\* the weekly entries of a channel add up to its historical entry
ChannelPartitioned(st) ==
    /\ SumOfSeq([i \in DOMAIN st.weekly |-> st.weekly[i].value.revisadas])
           = st.historical.total_revisadas
    /\ SumOfSeq([i \in DOMAIN st.weekly |-> st.weekly[i].value.rechazadas])
           = st.historical.total_rechazadas
    /\ SumOfSeq([i \in DOMAIN st.weekly |-> st.weekly[i].value.aceptadas])
           = st.historical.total_aceptadas
    /\ st.historical.total_rechazadas + st.historical.total_aceptadas
           <= st.historical.total_revisadas
    /\ \A i \in DOMAIN st.weekly :
        st.weekly[i].value.rechazadas + st.weekly[i].value.aceptadas
            <= st.weekly[i].value.revisadas

\* C27: in a summary, the weekly totals of the reviewer statistics add up
\* to the historical total, which is the number of rows of the unified table
\* and the number of records of cards_by_week; for Web and for App the
\* weekly reviewed, rejected and accepted counts add up to the historical
\* ones, and rejected plus accepted never exceed reviewed.
C27_WeeksPartitionTotals ==
    result.op = "all" =>
        LET st == result.value
        IN /\ SumOfSeq([i \in DOMAIN st.qa.weekly |-> st.qa.weekly[i].total_semana])
                  = st.qa.historical.total_revisadas
           /\ st.qa.historical.total_revisadas = Len(all_data.rows)
           /\ SumOfSeq([i \in DOMAIN st.cards_by_week |->
                            Len(st.cards_by_week[i].value)])
                  = Len(all_data.rows)
           /\ ChannelPartitioned(st.web)
           /\ ChannelPartitioned(st.app)

\* the summary of the two weeks of three Web cards and two App cards
C27_Witness ==
    /\ result.op = "all"
    /\ Len(result.value.qa.weekly) = 2
    /\ result.value.qa.weekly[1].total_semana = 3
    /\ result.value.qa.weekly[2].total_semana = 2
    /\ result.value.web.historical.total_revisadas = 3
    /\ result.value.app.historical.total_revisadas = 2


---------------------------------------------------------------------------
(* Properties of repeated loads *)

\* the names of the marked sheets of the workbook that have a row
NonEmptyWeeks ==
    {excel.sheets[i].name : i \in {j \in DOMAIN excel.sheets :
        /\ has_week_marker(excel.sheets[j].name)
        /\ excel.sheets[j].rows # <<>>}}

\* C28: however often load_all_sheets has run on the instance, weeks_list
\* holds each marked sheet name once, the week values of the table are the
\* names of the marked sheets with rows, and the averages over
\* len(weeks_list) are the ones of the first load.
C28_ReloadKeepsWeeks ==
    pc = "ready" =>
        /\ weeks_list = matched_names(excel)
        /\ \A i, j \in DOMAIN weeks_list : weeks_list[i] = weeks_list[j] => i = j
        /\ {w.s : w \in WeeksPresent} = NonEmptyWeeks
        /\ result.op \in {"qa", "dev", "pm"} =>
            result.value = StatisticOf(result.op, result.arg,
                                       Loaded.all_data, Loaded.weeks_list)


---------------------------------------------------------------------------
(* Properties of generations running at the same time *)

\* the status of /generate for the file wb when no other request runs
StatusAlone(wb) ==
    IF load_all_sheets(wb, <<>>, EmptyFrame).raised THEN 500 ELSE 200

\* C26: a /generate request is answered as it would be alone, whatever
\* other requests do to reporte_tarjetas.xlsx meanwhile, and the page it
\* writes is the dashboard of the spreadsheet of its own url.
C26_GenerationsIndependent ==
    \A p \in DOMAIN in_flight :
        in_flight[p].at = "done" =>
            /\ in_flight[p].status = StatusAlone(in_flight[p].url)
            /\ in_flight[p].status = 200 =>
                in_flight[p].page = DashboardOf(in_flight[p].url)

=============================================================================
